---- MODULE Spec2Model ----
(***************************************************************************)
(* File-based storage adapter of work-agent (FileVoltAgentMemoryAdapter):  *)
(* conversation metadata, NDJSON message logs and working memory, kept as  *)
(* files under <workAgentDir>/agents/<resourceId>/memory, with the         *)
(* adapter's two in-memory caches.                                         *)
(*                                                                         *)
(* Every public method of the adapter is one action.  A method is written  *)
(* as an operator from a store record (the files and the caches of the     *)
(* adapter that runs it) to the store record it leaves behind and the      *)
(* value it returns, composed exactly as the source composes its helpers.  *)
(***************************************************************************)
EXTENDS Integers, Sequences, FiniteSets, TLC

\* ------------------------------------------------------------------ bounds
MaxOps == 3
MaxTime == 1
MaxLog == 3

\* ------------------------------------------------------------- input sets
\* Resource ids and user ids are character sequences, so that the regular
\* expressions of extractAgentSlug and sanitizeId are computed, not assumed.
ResA == <<"a">>
ResB == <<"b">>
DefaultResource == <<"d", "e", "f", "a", "u", "l", "t">>
Resources == {ResA, ResB, DefaultResource}
CreateResources == {ResA, ResB}

UserAgentB == <<"a", "g", "e", "n", "t", ":", "b", ":", "u">>
UserPlain == <<"u", "1">>
UserIds == {UserAgentB, UserPlain}

ConvIds == {"c1", "c2"}
Undefined == "undefined"
MetaFull == {<<"topic", "x">>, <<"draft", Undefined>>}

\* What a caller of createConversation passes besides the id and the resource:
\* both users, both titles, metadata absent and present.
CreateProfiles ==
  {[userId |-> UserAgentB, title |-> "t1", metadata |-> <<>>],
   [userId |-> UserPlain, title |-> "t2", metadata |-> <<MetaFull>>]}

MsgHi == [role |-> "user", content |-> "hi"]
MsgHello == [role |-> "assistant", content |-> "hello"]
Messages == {MsgHi}
Batches == {<<>>, <<MsgHello, MsgHi>>}

Adapters == {"ad1", "ad2"}
StoreAdapter == "ad1"

\* ------------------------------------------------------------------- state
VARIABLES
  convFiles,                 \* conversations/<id>.json : <<resourceId, id>> -> JSON text
  msgFiles,                  \* sessions/<id>.ndjson    : <<resourceId, id>> -> lines
  wmFiles,                   \* working/conversation/<id>.json, working/user/<sanitized
                             \* userId>.json and working/<id>.json (layout before scopes)
  workflowFiles,             \* workflows/states/<executionId>.json : executionId -> text
  conversationCache,         \* per adapter: id -> Conversation
  conversationResourceCache, \* per adapter: id -> resourceId
  agentOrder,                \* order in which readdir lists the agents directory
  fileOrder,                 \* order in which readdir lists a conversations directory
  now,                       \* the millisecond clock read by new Date()
  nOps,                      \* number of adapter calls made so far
  last,                      \* the latest adapter call: its name, arguments and result
  appendHistory,             \* per conversation id: the messages appended so far, the
                             \* user ids of those calls, and whether no clear or delete
                             \* call has cut the sequence
  inFlight,                  \* calls: the calls that have started and not returned, each
                             \* with its position and its local variables; settled: per
                             \* conversation id the record of the latest create or update
                             \* call that has returned
  agentFiles,                \* agents/<slug>/agent.json : slug -> AgentSpec
  agentWorkflowFiles,        \* agents/<slug>/workflows/<filename> : <<slug, filename>> -> content
  mcpConfigs,                \* WorkAgentRuntime.mcpConfigs : <<slug, toolId>> -> MCPConfiguration
  activeAgents,              \* WorkAgentRuntime.activeAgents : slug -> Agent
  connections,               \* per MCPConfiguration ever constructed: what happened to
                             \* its connection to the MCP server
  runtime                    \* the runtime's progress: whether initialize has been
                             \* called, the calls of createVoltAgentInstance per slug,
                             \* the agents listed and built by the latest initialize,
                             \* and the calls of shutdown

vars == <<convFiles, msgFiles, wmFiles, workflowFiles,
          conversationCache, conversationResourceCache, agentOrder, fileOrder,
          now, nOps, last, appendHistory, inFlight,
          agentFiles, agentWorkflowFiles, mcpConfigs, activeAgents, connections,
          runtime>>

\* ----------------------------------------------------------------- helpers
Has(f, k) == k \in DOMAIN f
Put(f, k, v) == [x \in (DOMAIN f) \cup {k} |-> IF x = k THEN v ELSE f[x]]
Del(f, k) == [x \in (DOMAIN f) \ {k} |-> f[x]]
EmptyMap == [x \in {} |-> 0]

None == <<>>
Some(v) == <<v>>
IsSome(o) == Len(o) > 0
Val(o) == o[1]

SeqPerms(S) ==
  {p \in [1..Cardinality(S) -> S] : \A x \in S : \E i \in DOMAIN p : p[i] = x}

\* new Date().toISOString() and new Date(text).getTime()
toISOString(t) == [iso |-> t]
getTime(text) == text.iso

\* JSON.stringify drops the keys whose value is undefined; JSON.parse gives
\* back what was written.
JsonStringifyConversation(conv) ==
  [json |-> [conv EXCEPT !.metadata = {kv \in @ : kv[2] # Undefined}]]
JsonParseConversation(text) == text.json

JsonStringifyMessage(m) == <<"{", m.role, m.content, "}">>
IsJsonLine(line) == Len(line) = 4 /\ line[1] = "{" /\ line[4] = "}"
JsonParseMessage(line) == [role |-> line[2], content |-> line[3]]

\* The part of the state one adapter call works on.
Store(ad) ==
  [cf |-> convFiles, mf |-> msgFiles, wm |-> wmFiles, wf |-> workflowFiles,
   cc |-> conversationCache[ad], rc |-> conversationResourceCache[ad]]

\* ------------------------------------------------------------------- paths
getConversationPath(resourceId, conversationId) == <<resourceId, conversationId>>
getMessagesPath(resourceId, conversationId) == <<resourceId, conversationId>>

\* Working-memory files are named by their directory and their file name, so
\* that two paths are one file exactly when both agree.
\* getWorkingMemoryDir that leaves the scope directory out.
getWorkingMemoryDir_NoScope(resourceId, scope) == <<resourceId, "working", ".">>

getWorkingMemoryDir(resourceId, scope) == <<resourceId, "working", scope>>
getConversationWorkingMemoryPath(resourceId, conversationId) ==
  Append(getWorkingMemoryDir(resourceId, "conversation"), conversationId)
\* join(getAgentMemoryDir(resourceId), 'working', name): a file of the working
\* directory itself, "." standing for no scope directory.
getLegacyWorkingMemoryPath(resourceId, conversationId) ==
  <<resourceId, "working", ".", conversationId>>

SafeChars ==
  {"a", "b", "c", "d", "e", "f", "g", "h", "i", "j", "k", "l", "m", "n", "o",
   "p", "q", "r", "s", "t", "u", "v", "w", "x", "y", "z",
   "A", "B", "C", "D", "E", "F", "G", "H", "I", "J", "K", "L", "M", "N", "O",
   "P", "Q", "R", "S", "T", "U", "V", "W", "X", "Y", "Z",
   "0", "1", "2", "3", "4", "5", "6", "7", "8", "9", "-", "_"}

sanitizeId(id) == [i \in DOMAIN id |-> IF id[i] \in SafeChars THEN id[i] ELSE "_"]

getUserWorkingMemoryPath(resourceId, userId) ==
  Append(getWorkingMemoryDir(resourceId, "user"), sanitizeId(userId))

\* ------------------------------------------------------------------ caches
cacheConversation(s, conversation) ==
  [s EXCEPT !.cc = Put(@, conversation.id, conversation),
            !.rc = Put(@, conversation.id, conversation.resourceId)]

\* The first agent directory, in readdir order, that holds <id>.json; the
\* cached resource is tried first.
findConversationLocation(s, conversationId) ==
  IF Has(s.rc, conversationId)
     /\ Has(s.cf, getConversationPath(s.rc[conversationId], conversationId))
  THEN Some(s.rc[conversationId])
  ELSE LET hits == SelectSeq(agentOrder,
                     LAMBDA r : Has(s.cf, getConversationPath(r, conversationId)))
       IN IF hits = <<>> THEN None ELSE Some(Head(hits))

loadConversationFromDisk(s, conversationId) ==
  IF Has(s.cc, conversationId)
  THEN [s |-> s, ret |-> Some(s.cc[conversationId])]
  ELSE LET location == findConversationLocation(s, conversationId)
       IN IF ~IsSome(location)
          THEN [s |-> s, ret |-> None]
          ELSE LET conversation ==
                     JsonParseConversation(
                       s.cf[getConversationPath(Val(location), conversationId)])
               IN [s |-> cacheConversation(s, conversation),
                   ret |-> Some(conversation)]

\* persistConversation without the refresh of the conversation cache.
persistConversation_StaleCache(s, conversation) ==
  LET written == [s EXCEPT !.cf = Put(@, getConversationPath(conversation.resourceId,
                                                            conversation.id),
                                      JsonStringifyConversation(conversation))]
  IN IF Has(s.cc, conversation.id) THEN written ELSE cacheConversation(written, conversation)

persistConversation(s, conversation) ==
  cacheConversation(
    [s EXCEPT !.cf = Put(@, getConversationPath(conversation.resourceId, conversation.id),
                         JsonStringifyConversation(conversation))],
    conversation)

getConversation(s, id) == loadConversationFromDisk(s, id)

touchConversation(s, conversationId, t) ==
  LET g == getConversation(s, conversationId)
  IN IF ~IsSome(g.ret)
     THEN g.s
     ELSE persistConversation(g.s, [Val(g.ret) EXCEPT !.updatedAt = toISOString(t)])

\* /^agent:([^:]+)/
RECURSIVE TakeUntilColon(_)
TakeUntilColon(chars) ==
  IF chars = <<>> \/ Head(chars) = ":" THEN <<>>
  ELSE <<Head(chars)>> \o TakeUntilColon(Tail(chars))

extractAgentSlug(userIdOpt) ==
  IF ~IsSome(userIdOpt) \/ Val(userIdOpt) = <<>> THEN None
  ELSE LET userId == Val(userIdOpt)
           prefix == <<"a", "g", "e", "n", "t", ":">>
       IN IF Len(userId) > Len(prefix)
             /\ SubSeq(userId, 1, Len(prefix)) = prefix
             /\ TakeUntilColon(SubSeq(userId, Len(prefix) + 1, Len(userId))) # <<>>
          THEN Some(TakeUntilColon(SubSeq(userId, Len(prefix) + 1, Len(userId))))
          ELSE None

resolveResourceId(s, conversationIdOpt, userIdOpt) ==
  LET viaUser == IF IsSome(extractAgentSlug(userIdOpt))
                 THEN Val(extractAgentSlug(userIdOpt))
                 ELSE DefaultResource
  IN IF ~IsSome(conversationIdOpt)
     THEN [s |-> s, ret |-> viaUser]
     ELSE IF Has(s.rc, Val(conversationIdOpt))
     THEN [s |-> s, ret |-> s.rc[Val(conversationIdOpt)]]
     ELSE LET l == loadConversationFromDisk(s, Val(conversationIdOpt))
          IN IF IsSome(l.ret)
             THEN [s |-> l.s, ret |-> Val(l.ret).resourceId]
             ELSE [s |-> l.s, ret |-> viaUser]

\* ----------------------------------------------------------- conversations
createConversation(s, input, t) ==
  LET conversation ==
        [id |-> input.id, resourceId |-> input.resourceId, userId |-> input.userId,
         title |-> input.title,
         metadata |-> IF IsSome(input.metadata) THEN Val(input.metadata) ELSE {},
         createdAt |-> toISOString(t), updatedAt |-> toISOString(t)]
  IN [s |-> persistConversation(s, conversation), ret |-> conversation]

\* { ...conversation, ...updates, resourceId, createdAt, updatedAt }
mergeConversation(conversation, updates, t) ==
  [f \in DOMAIN conversation |->
     IF f = "resourceId" THEN conversation.resourceId
     ELSE IF f = "createdAt" THEN conversation.createdAt
     ELSE IF f = "updatedAt" THEN toISOString(t)
     ELSE IF f \in DOMAIN updates THEN updates[f]
     ELSE conversation[f]]

updateConversation(s, id, updates, t) ==
  LET g == getConversation(s, id)
  IN IF ~IsSome(g.ret)
     THEN [s |-> g.s, threw |-> TRUE, ret |-> None]
     ELSE LET updated == mergeConversation(Val(g.ret), updates, t)
          IN [s |-> persistConversation(g.s, updated), threw |-> FALSE,
              ret |-> Some(updated)]

deleteMessagesFile(s, resourceId, conversationId) ==
  [s EXCEPT !.mf = Del(@, getMessagesPath(resourceId, conversationId))]

deleteConversationWorkingMemory(s, resourceId, conversationId) ==
  [s EXCEPT !.wm = Del(@, getConversationWorkingMemoryPath(resourceId, conversationId))]

\* deleteConversation without the two cache deletions at its end.
deleteConversation_KeepsCache(s, id) ==
  LET g == getConversation(s, id)
  IN IF ~IsSome(g.ret)
     THEN g.s
     ELSE LET resourceId == Val(g.ret).resourceId
              unlinked == [g.s EXCEPT !.cf = Del(@, getConversationPath(resourceId, id))]
          IN deleteConversationWorkingMemory(
               deleteMessagesFile(unlinked, resourceId, id), resourceId, id)

deleteConversation(s, id) ==
  LET g == getConversation(s, id)
  IN IF ~IsSome(g.ret)
     THEN g.s
     ELSE LET resourceId == Val(g.ret).resourceId
              unlinked == [g.s EXCEPT !.cf = Del(@, getConversationPath(resourceId, id))]
              cascaded == deleteConversationWorkingMemory(
                            deleteMessagesFile(unlinked, resourceId, id), resourceId, id)
          IN [cascaded EXCEPT !.cc = Del(@, id), !.rc = Del(@, id)]

RECURSIVE cacheAll(_, _)
cacheAll(s, conversations) ==
  IF conversations = <<>> THEN s
  ELSE cacheAll(cacheConversation(s, Head(conversations)), Tail(conversations))

listAgentConversations(s, resourceId) ==
  LET files == SelectSeq(fileOrder,
                 LAMBDA c : Has(s.cf, getConversationPath(resourceId, c)))
      conversations ==
        [i \in 1..Len(files) |->
           JsonParseConversation(s.cf[getConversationPath(resourceId, files[i])])]
  IN [s |-> cacheAll(s, conversations), ret |-> conversations]

RECURSIVE loadAllFrom(_, _)
loadAllFrom(s, entries) ==
  IF entries = <<>> THEN [s |-> s, ret |-> <<>>]
  ELSE LET l == listAgentConversations(s, Head(entries))
           rest == loadAllFrom(l.s, Tail(entries))
       IN [s |-> rest.s, ret |-> l.ret \o rest.ret]

loadAllConversations(s) == loadAllFrom(s, agentOrder)

\* String.prototype.localeCompare on the titles in use.
Collation == <<"t1", "t2">>
CollationIndex(str) == CHOOSE i \in DOMAIN Collation : Collation[i] = str
localeCompare(x, y) ==
  IF x = y THEN 0 ELSE IF CollationIndex(x) < CollationIndex(y) THEN 0 - 1 ELSE 1

compareConversations(x, y, orderBy, orderDirection) ==
  IF orderBy = "title"
  THEN localeCompare(x.title, y.title) * orderDirection
  ELSE LET key == IF orderBy = "created_at" THEN "createdAt" ELSE "updatedAt"
       IN (getTime(x[key]) - getTime(y[key])) * orderDirection

\* Array.prototype.sort is stable: an element goes after every element that
\* does not compare greater than it.
insertSorted(sorted, x, orderBy, orderDirection) ==
  LET later == {i \in DOMAIN sorted :
                  compareConversations(sorted[i], x, orderBy, orderDirection) > 0}
      k == IF later = {} THEN Len(sorted) + 1
           ELSE CHOOSE i \in later : \A j \in later : i <= j
  IN SubSeq(sorted, 1, k - 1) \o <<x>> \o SubSeq(sorted, k, Len(sorted))

RECURSIVE sortConversations(_, _, _)
sortConversations(list, orderBy, orderDirection) ==
  IF list = <<>> THEN <<>>
  ELSE insertSorted(
         sortConversations(SubSeq(list, 1, Len(list) - 1), orderBy, orderDirection),
         list[Len(list)], orderBy, orderDirection)

\* Array.prototype.slice(from, to) for 0 <= from <= to
slice(list, from, to) ==
  SubSeq(list, from + 1, IF to < Len(list) THEN to ELSE Len(list))

applyQueryOptions(conversations, optionsOpt) ==
  IF ~IsSome(optionsOpt) THEN conversations
  ELSE LET options == Val(optionsOpt)
           byUser == IF "userId" \in DOMAIN options
                     THEN SelectSeq(conversations, LAMBDA c : c.userId = options.userId)
                     ELSE conversations
           filtered == IF "resourceId" \in DOMAIN options
                       THEN SelectSeq(byUser, LAMBDA c : c.resourceId = options.resourceId)
                       ELSE byUser
           orderBy == IF "orderBy" \in DOMAIN options THEN options.orderBy ELSE "updated_at"
           orderDirection == IF "orderDirection" \in DOMAIN options
                                /\ options.orderDirection = "ASC" THEN 1 ELSE 0 - 1
           sorted == sortConversations(filtered, orderBy, orderDirection)
           offset == IF "offset" \in DOMAIN options THEN options.offset ELSE 0
           limit == IF "limit" \in DOMAIN options THEN options.limit ELSE Len(sorted)
       IN slice(sorted, offset, offset + limit)

getConversations(s, resourceId) ==
  LET l == listAgentConversations(s, resourceId)
  IN [s |-> l.s, ret |-> applyQueryOptions(l.ret, None)]

getConversationsByUserId(s, userId, options) ==
  LET l == loadAllConversations(s)
  IN [s |-> l.s,
      ret |-> applyQueryOptions(l.ret,
                Some([f \in (DOMAIN options) \cup {"userId"} |->
                        IF f = "userId" THEN userId ELSE options[f]]))]

queryConversations(s, options) ==
  LET l == loadAllConversations(s)
  IN [s |-> l.s, ret |-> applyQueryOptions(l.ret, Some(options))]

\* ---------------------------------------------------------------- messages
\* appendFile that writes the file anew (writeFile for appendFile).
appendFile_Overwrite(files, path, lines) == Put(files, path, lines)

appendFile(files, path, lines) ==
  Put(files, path, IF Has(files, path) THEN files[path] \o lines ELSE lines)

addMessage(s, message, userId, conversationId, t) ==
  LET r == resolveResourceId(s, Some(conversationId), Some(userId))
      messagesPath == getMessagesPath(r.ret, conversationId)
      appended == [r.s EXCEPT !.mf = appendFile(@, messagesPath,
                                                <<JsonStringifyMessage(message)>>)]
  IN touchConversation(appended, conversationId, t)

addMessages(s, messages, userId, conversationId, t) ==
  IF Len(messages) = 0 THEN s
  ELSE LET r == resolveResourceId(s, Some(conversationId), Some(userId))
           messagesPath == getMessagesPath(r.ret, conversationId)
           payload == [i \in 1..Len(messages) |-> JsonStringifyMessage(messages[i])]
           appended == [r.s EXCEPT !.mf = appendFile(@, messagesPath, payload)]
       IN touchConversation(appended, conversationId, t)

\* String.prototype.trim: the line without the white space at its two ends.
RECURSIVE TrimStart(_)
TrimStart(line) ==
  IF line # <<>> /\ Head(line) = " " THEN TrimStart(Tail(line)) ELSE line

RECURSIVE TrimEnd(_)
TrimEnd(line) ==
  IF line # <<>> /\ line[Len(line)] = " "
  THEN TrimEnd(SubSeq(line, 1, Len(line) - 1)) ELSE line

Trim(line) == TrimEnd(TrimStart(line))

\* The readline loop with a parse error that ends the loop: the messages
\* before the first line that does not parse.
RECURSIVE parseLines_StopAtMalformed(_)
parseLines_StopAtMalformed(lines) ==
  IF lines = <<>> THEN <<>>
  ELSE IF Trim(Head(lines)) = <<>> THEN parseLines_StopAtMalformed(Tail(lines))
  ELSE IF ~IsJsonLine(Trim(Head(lines))) THEN <<>>
  ELSE <<JsonParseMessage(Trim(Head(lines)))>> \o parseLines_StopAtMalformed(Tail(lines))

\* Every line that is not blank after trim and parses, in file order.
parseLines(lines) ==
  LET good == SelectSeq(lines, LAMBDA line : Trim(line) # <<>> /\ IsJsonLine(Trim(line)))
  IN [i \in 1..Len(good) |-> JsonParseMessage(Trim(good[i]))]

\* applyLimit with slice(0, limit) for slice(-limit).
applyLimit_Head(messages, limitOpt) ==
  IF IsSome(limitOpt) /\ Val(limitOpt) # 0 /\ Len(messages) > Val(limitOpt)
  THEN SubSeq(messages, 1, Val(limitOpt))
  ELSE messages

\* messages.slice(-limit) when a limit is given and exceeded
applyLimit(messages, limitOpt) ==
  IF IsSome(limitOpt) /\ Val(limitOpt) # 0 /\ Len(messages) > Val(limitOpt)
  THEN SubSeq(messages, Len(messages) - Val(limitOpt) + 1, Len(messages))
  ELSE messages

getMessages(s, userId, conversationId, limitOpt) ==
  LET r == resolveResourceId(s, Some(conversationId), Some(userId))
      location == findConversationLocation(r.s, conversationId)
      found ==
        IF Has(r.s.mf, getMessagesPath(r.ret, conversationId))
        THEN Some(getMessagesPath(r.ret, conversationId))
        ELSE IF IsSome(location)
                /\ Has(r.s.mf, getMessagesPath(Val(location), conversationId))
        THEN Some(getMessagesPath(Val(location), conversationId))
        ELSE None
  IN [s |-> r.s,
      ret |-> IF IsSome(found)
              THEN applyLimit(parseLines(r.s.mf[Val(found)]), limitOpt)
              ELSE <<>>]

\* truncate that unlinks the file.
truncate_Unlink(files, path) == Del(files, path)

truncate(files, path) == IF Has(files, path) THEN Put(files, path, <<>>) ELSE files

RECURSIVE truncateAll(_, _)
truncateAll(files, conversations) ==
  IF conversations = <<>> THEN files
  ELSE truncateAll(
         truncate(files, getMessagesPath(Head(conversations).resourceId,
                                         Head(conversations).id)),
         Tail(conversations))

clearMessages(s, userId, conversationIdOpt) ==
  IF IsSome(conversationIdOpt)
  THEN LET r == resolveResourceId(s, conversationIdOpt, Some(userId))
       IN [r.s EXCEPT !.mf = truncate(@, getMessagesPath(r.ret, Val(conversationIdOpt)))]
  ELSE LET l == getConversationsByUserId(s, userId, EmptyMap)
       IN [l.s EXCEPT !.mf = truncateAll(@, l.ret)]

\* ---------------------------------------------------------- working memory
\* getWorkingMemory that consults the legacy file before the scoped one.
getWorkingMemory_LegacyFirst(s, conversationIdOpt, userIdOpt, scope) ==
  LET r == resolveResourceId(s, conversationIdOpt, userIdOpt)
  IN IF scope = "conversation"
     THEN IF ~IsSome(conversationIdOpt) THEN [s |-> r.s, ret |-> None]
          ELSE LET path == getConversationWorkingMemoryPath(r.ret, Val(conversationIdOpt))
                   legacyPath == getLegacyWorkingMemoryPath(r.ret, Val(conversationIdOpt))
               IN IF Has(r.s.wm, legacyPath)
                  THEN LET legacyData == r.s.wm[legacyPath]
                       IN [s |-> r.s,
                           ret |-> IF "memory" \in DOMAIN legacyData
                                   THEN Some(legacyData.memory)
                                   ELSE IF "content" \in DOMAIN legacyData
                                   THEN Some(legacyData.content)
                                   ELSE None]
                  ELSE IF Has(r.s.wm, path)
                  THEN [s |-> r.s, ret |-> Some(r.s.wm[path].content)]
                  ELSE [s |-> r.s, ret |-> None]
     ELSE IF ~IsSome(userIdOpt) THEN [s |-> r.s, ret |-> None]
          ELSE LET path == getUserWorkingMemoryPath(r.ret, Val(userIdOpt))
               IN IF Has(r.s.wm, path)
                  THEN [s |-> r.s, ret |-> Some(r.s.wm[path].content)]
                  ELSE [s |-> r.s, ret |-> None]

getWorkingMemory(s, conversationIdOpt, userIdOpt, scope) ==
  LET r == resolveResourceId(s, conversationIdOpt, userIdOpt)
  IN IF scope = "conversation"
     THEN IF ~IsSome(conversationIdOpt) THEN [s |-> r.s, ret |-> None]
          ELSE LET path == getConversationWorkingMemoryPath(r.ret, Val(conversationIdOpt))
                   legacyPath == getLegacyWorkingMemoryPath(r.ret, Val(conversationIdOpt))
               IN IF Has(r.s.wm, path)
                  THEN [s |-> r.s, ret |-> Some(r.s.wm[path].content)]
                  ELSE IF ~Has(r.s.wm, legacyPath) THEN [s |-> r.s, ret |-> None]
                  ELSE LET legacyData == r.s.wm[legacyPath]
                       IN [s |-> r.s,
                           ret |-> IF "memory" \in DOMAIN legacyData
                                   THEN Some(legacyData.memory)
                                   ELSE IF "content" \in DOMAIN legacyData
                                   THEN Some(legacyData.content)
                                   ELSE None]
     ELSE IF ~IsSome(userIdOpt) THEN [s |-> r.s, ret |-> None]
          ELSE LET path == getUserWorkingMemoryPath(r.ret, Val(userIdOpt))
               IN IF Has(r.s.wm, path)
                  THEN [s |-> r.s, ret |-> Some(r.s.wm[path].content)]
                  ELSE [s |-> r.s, ret |-> None]

setWorkingMemory(s, conversationIdOpt, userIdOpt, content, scope, t) ==
  LET r == resolveResourceId(s, conversationIdOpt, userIdOpt)
      payload == [content |-> content, updatedAt |-> toISOString(t)]
  IN IF scope = "conversation"
     THEN IF ~IsSome(conversationIdOpt) THEN [s |-> r.s, threw |-> TRUE]
          ELSE [s |-> [r.s EXCEPT !.wm =
                         Put(@, getConversationWorkingMemoryPath(r.ret, Val(conversationIdOpt)),
                             payload)],
                threw |-> FALSE]
     ELSE IF ~IsSome(userIdOpt) THEN [s |-> r.s, threw |-> TRUE]
          ELSE [s |-> [r.s EXCEPT !.wm =
                         Put(@, getUserWorkingMemoryPath(r.ret, Val(userIdOpt)), payload)],
                threw |-> FALSE]

deleteWorkingMemory(s, conversationIdOpt, userIdOpt, scope) ==
  LET r == resolveResourceId(s, conversationIdOpt, userIdOpt)
  IN IF scope = "conversation"
     THEN IF ~IsSome(conversationIdOpt) THEN r.s
          ELSE [r.s EXCEPT !.wm =
                  Del(@, getConversationWorkingMemoryPath(r.ret, Val(conversationIdOpt)))]
     ELSE IF ~IsSome(userIdOpt) THEN r.s
          ELSE [r.s EXCEPT !.wm = Del(@, getUserWorkingMemoryPath(r.ret, Val(userIdOpt)))]

\* ----------------------------------------------------------- workflow state
\* One directory for all resources; a file is named by its executionId.  The
\* text of a file is a JSON object (a record), the JSON literal null, or text
\* that JSON.parse rejects.
getWorkflowStatePath(executionId) == executionId

JsonParseThrows(content) == "garbage" \in DOMAIN content
JsonIsNull(content) == "literal" \in DOMAIN content

\* { ...a, ...b }
Spread(a, b) ==
  [k \in (DOMAIN a) \cup (DOMAIN b) |-> IF k \in DOMAIN b THEN b[k] ELSE a[k]]

\* suspension.suspendedAt.toISOString() on a suspension without suspendedAt
serializeThrows(state) ==
  IsSome(state.suspension) /\ "suspendedAt" \notin DOMAIN Val(state.suspension)

serializeWorkflowState(state) ==
  [k \in DOMAIN state |->
     IF k \in {"createdAt", "updatedAt"} THEN toISOString(state[k])
     ELSE IF k = "suspension" /\ IsSome(state[k])
     THEN Some([f \in DOMAIN Val(state[k]) |->
                  IF f = "suspendedAt" THEN toISOString(Val(state[k])[f])
                  ELSE Val(state[k])[f]])
     ELSE state[k]]

deserializeWorkflowState(json) ==
  IF JsonIsNull(json) THEN None
  ELSE Some([k \in DOMAIN json |->
               IF k \in {"createdAt", "updatedAt"} THEN getTime(json[k])
               ELSE IF k = "suspension" /\ IsSome(json[k])
               THEN Some([f \in DOMAIN Val(json[k]) |->
                            IF f = "suspendedAt" THEN getTime(Val(json[k])[f])
                            ELSE Val(json[k])[f]])
               ELSE json[k]])

getWorkflowState(s, executionId) ==
  LET path == getWorkflowStatePath(executionId)
  IN IF ~Has(s.wf, path) THEN None
     ELSE IF JsonParseThrows(s.wf[path]) THEN None
     ELSE deserializeWorkflowState(s.wf[path])

setWorkflowState(s, executionId, state) ==
  IF serializeThrows(state) THEN [s |-> s, threw |-> TRUE]
  ELSE [s |-> [s EXCEPT !.wf = Put(@, getWorkflowStatePath(executionId),
                                   serializeWorkflowState(state))],
        threw |-> FALSE]

mergeWorkflowState(existing, updates, t) ==
  [Spread(existing, updates) EXCEPT
     !.createdAt = existing.createdAt,
     !.updatedAt = IF "updatedAt" \in DOMAIN updates THEN updates.updatedAt ELSE t]

\* updateWorkflowState that creates the entry when none is stored.
updateWorkflowState_CreateMissing(s, executionId, updates, t) ==
  LET existing == getWorkflowState(s, executionId)
      fresh == [executionId |-> executionId, workflowId |-> "w1", status |-> "running",
                createdAt |-> t, updatedAt |-> t, suspension |-> None]
      base == IF IsSome(existing) THEN Val(existing) ELSE fresh
      merged == mergeWorkflowState(base, updates, t)
      nested ==
        IF IsSome(merged.suspension) /\ IsSome(base.suspension)
        THEN [merged EXCEPT !.suspension =
                Some(Spread(Val(base.suspension),
                            IF "suspension" \in DOMAIN updates
                            THEN Val(updates.suspension) ELSE EmptyMap))]
        ELSE merged
  IN setWorkflowState(s, executionId, nested)

\* updateWorkflowState that lets the payload's suspension replace the stored one.
updateWorkflowState_ReplaceSuspension(s, executionId, updates, t) ==
  LET existing == getWorkflowState(s, executionId)
  IN IF ~IsSome(existing) THEN [s |-> s, threw |-> TRUE]
     ELSE setWorkflowState(s, executionId, mergeWorkflowState(Val(existing), updates, t))

updateWorkflowState(s, executionId, updates, t) ==
  LET existing == getWorkflowState(s, executionId)
  IN IF ~IsSome(existing) THEN [s |-> s, threw |-> TRUE]
     ELSE LET merged == mergeWorkflowState(Val(existing), updates, t)
              nested ==
                IF IsSome(merged.suspension) /\ IsSome(Val(existing).suspension)
                THEN [merged EXCEPT !.suspension =
                        Some(Spread(Val(Val(existing).suspension),
                                    IF "suspension" \in DOMAIN updates
                                    THEN Val(updates.suspension) ELSE EmptyMap))]
                ELSE merged
          IN setWorkflowState(s, executionId, nested)

\* The loop of getSuspendedWorkflowStates over the listing `files'.
scanWorkflowStates(s, files, workflowId) ==
  LET parsed(file) == IF JsonParseThrows(s.wf[file]) THEN None
                      ELSE deserializeWorkflowState(s.wf[file])
      kept == SelectSeq(files, LAMBDA file :
                /\ IsSome(parsed(file))
                /\ Val(parsed(file)).status = "suspended"
                /\ Val(parsed(file)).workflowId = workflowId)
  IN [i \in 1..Len(kept) |-> Val(parsed(kept[i]))]

\* getSuspendedWorkflowStates whose scan fails on the first file that cannot be read.
getSuspendedWorkflowStates_AbortOnCorrupt(s, workflowId, order) ==
  LET files == SelectSeq(order, LAMBDA file : Has(s.wf, file))
  IN IF \E i \in DOMAIN files :
          JsonParseThrows(s.wf[files[i]]) \/ JsonIsNull(s.wf[files[i]])
     THEN [ret |-> <<>>, threw |-> TRUE]
     ELSE [ret |-> scanWorkflowStates(s, files, workflowId), threw |-> FALSE]

\* `order' is the order in which readdir lists the directory.
getSuspendedWorkflowStates(s, workflowId, order) ==
  LET files == SelectSeq(order, LAMBDA file : Has(s.wf, file))
  IN [ret |-> scanWorkflowStates(s, files, workflowId), threw |-> FALSE]

\* ------------------------------------------------------------------ runtime
\* WorkAgentRuntime: the agents it has built (activeAgents), the MCP
\* configurations it caches per agent and tool (mcpConfigs), the agent.json
\* files it loads, and the MCP servers behind the configurations.
Slugs == {"writer", "coder"}

\* tools/<id>/tool.json of the catalog.  "odd" is an MCP tool whose transport
\* createMCPServerConfig does not know; "ghost" has no tool.json.
ToolCatalog ==
  [id \in {"files", "web", "down", "odd", "calc"} |->
     CASE id = "files" -> [id |-> id, kind |-> "mcp", transport |-> "stdio"]
       [] id = "web"   -> [id |-> id, kind |-> "mcp", transport |-> "ws"]
       [] id = "down"  -> [id |-> id, kind |-> "mcp", transport |-> "tcp"]
       [] id = "odd"   -> [id |-> id, kind |-> "mcp", transport |-> "pipe"]
       [] id = "calc"  -> [id |-> id, kind |-> "builtin", transport |-> "none"]]

ToolIds == DOMAIN ToolCatalog \cup {"ghost"}

\* The MCP servers: the tools each one lists once connected, whether it can
\* be reached, and whether its disconnect fails.
ServerTools(toolId) ==
  CASE toolId = "files" -> <<[name |-> "files_read", server |-> toolId],
                             [name |-> "files_write", server |-> toolId]>>
    [] toolId = "web"   -> <<[name |-> "web_fetch", server |-> toolId]>>
    [] OTHER            -> <<>>
ServerReachable(toolId) == toolId \in {"files", "web"}
DisconnectFails(toolId) == toolId = "web"

RuntimeStore ==
  [files |-> agentFiles, mcp |-> mcpConfigs, active |-> activeAgents,
   conn |-> connections, rt |-> runtime]

\* configLoader.loadAgent: throws (None) when agent.json is missing or invalid
loadAgent(r, slug) ==
  IF Has(r.files, slug) /\ "garbage" \notin DOMAIN r.files[slug]
  THEN Some(r.files[slug]) ELSE None

\* configLoader.loadTool: throws (None) when tool.json is missing
loadTool(toolId) ==
  IF toolId \in DOMAIN ToolCatalog THEN Some(ToolCatalog[toolId]) ELSE None

\* throws (None) on a transport it does not know
createMCPServerConfig(toolDef) ==
  IF toolDef.transport \in {"stdio", "process"} THEN Some([type |-> "stdio"])
  ELSE IF toolDef.transport = "ws" THEN Some([type |-> "streamable-http"])
  ELSE IF toolDef.transport = "tcp" THEN Some([type |-> "http"])
  ELSE None

\* new MCPConfiguration: the n-th configuration constructed for the key
ConfigsConstructed(r, mcpKey) ==
  Cardinality({c \in DOMAIN r.conn : c[1] = mcpKey[1] /\ c[2] = mcpKey[2]})

\* mcpConfig.getTools(): connects when it holds no open connection, then
\* lists the server's tools; throws (None) when the server cannot be reached.
getTools(r, config) ==
  IF r.conn[config].open THEN [r |-> r, ret |-> Some(ServerTools(config[2]))]
  ELSE IF ServerReachable(config[2])
  THEN [r |-> [r EXCEPT !.conn[config].open = TRUE, !.conn[config].connects = @ + 1],
        ret |-> Some(ServerTools(config[2]))]
  ELSE [r |-> r, ret |-> None]

\* createMCPTools that builds a new configuration on every call.
createMCPTools_NoCache(r, agentSlug, toolId, toolDef) ==
  LET mcpKey == <<agentSlug, toolId>>
      serverConfig == createMCPServerConfig(toolDef)
      config == <<agentSlug, toolId, ConfigsConstructed(r, mcpKey) + 1>>
  IN IF ~IsSome(serverConfig) THEN [r |-> r, ret |-> None]
     ELSE getTools([r EXCEPT
                      !.conn = Put(@, config, [open |-> FALSE, connects |-> 0,
                                               disconnects |-> 0]),
                      !.mcp = Put(@, mcpKey, config)],
                   config)

createMCPTools(r, agentSlug, toolId, toolDef) ==
  LET mcpKey == <<agentSlug, toolId>>
      serverConfig == createMCPServerConfig(toolDef)
      config == <<agentSlug, toolId, ConfigsConstructed(r, mcpKey) + 1>>
  IN IF Has(r.mcp, mcpKey) THEN getTools(r, r.mcp[mcpKey])
     ELSE IF ~IsSome(serverConfig) THEN [r |-> r, ret |-> None]
     ELSE getTools([r EXCEPT
                      !.conn = Put(@, config, [open |-> FALSE, connects |-> 0,
                                               disconnects |-> 0]),
                      !.mcp = Put(@, mcpKey, config)],
                   config)

\* One turn of the loop of loadAgentTools: the tools the declared tool
\* contributes, or None when the try block throws.
loadDeclaredTool(r, agentSlug, toolId) ==
  LET toolDef == loadTool(toolId)
  IN IF ~IsSome(toolDef) THEN [r |-> r, ret |-> None]
     ELSE IF Val(toolDef).kind = "mcp"
     THEN createMCPTools(r, agentSlug, toolId, Val(toolDef))
     ELSE [r |-> r, ret |-> Some(<<>>)]   \* createBuiltinTool returns null

\* loadAgentTools whose loop ends at the first declared tool that fails.
RECURSIVE loadToolsFrom_StopAtFailure(_, _, _, _)
loadToolsFrom_StopAtFailure(r, agentSlug, use, tools) ==
  IF use = <<>> THEN [r |-> r, ret |-> tools]
  ELSE LET step == loadDeclaredTool(r, agentSlug, Head(use))
       IN IF IsSome(step.ret)
          THEN loadToolsFrom_StopAtFailure(step.r, agentSlug, Tail(use),
                                           tools \o Val(step.ret))
          ELSE [r |-> step.r, ret |-> tools]

RECURSIVE loadToolsFrom(_, _, _, _)
loadToolsFrom(r, agentSlug, use, tools) ==
  IF use = <<>> THEN [r |-> r, ret |-> tools]
  ELSE LET step == loadDeclaredTool(r, agentSlug, Head(use))
       IN loadToolsFrom(step.r, agentSlug, Tail(use),
                        IF IsSome(step.ret) THEN tools \o Val(step.ret) ELSE tools)

\* The allow-list filter that keeps every tool.
applyAllowList_KeepAll(spec, tools) == tools

applyAllowList(spec, tools) ==
  IF IsSome(Val(spec.tools).allowed) /\ "*" \notin Val(Val(spec.tools).allowed)
  THEN SelectSeq(tools, LAMBDA tool : tool.name \in Val(Val(spec.tools).allowed))
  ELSE tools

loadAgentTools(r, agentSlug, spec) ==
  IF ~IsSome(spec.tools) \/ Val(spec.tools).use = <<>> THEN [r |-> r, ret |-> <<>>]
  ELSE LET loaded == loadToolsFrom(r, agentSlug, Val(spec.tools).use, <<>>)
       IN [r |-> loaded.r, ret |-> applyAllowList(spec, loaded.ret)]

\* createBedrockModel / new Agent: throw for a model that cannot be provided
createBedrockModelThrows(spec) == spec.model = "unavailable"

\* Returns the Agent (Some) or throws (None); rt.builds counts the calls.
createVoltAgentInstance(r, agentSlug) ==
  LET n == IF Has(r.rt.builds, agentSlug) THEN r.rt.builds[agentSlug] + 1 ELSE 1
      started == [r EXCEPT !.rt.builds = Put(@, agentSlug, n)]
      spec == loadAgent(r, agentSlug)
  IN IF ~IsSome(spec) THEN [r |-> started, ret |-> None]
     ELSE IF createBedrockModelThrows(Val(spec)) THEN [r |-> started, ret |-> None]
     ELSE LET tools == loadAgentTools(started, agentSlug, Val(spec))
          IN [r |-> tools.r,
              ret |-> Some([name |-> agentSlug, build |-> n, tools |-> tools.ret,
                            instructions |-> Val(spec).prompt])]

\* configLoader.listAgents: the agents whose agent.json loads
listAgents(r) == {slug \in DOMAIN r.files : IsSome(loadAgent(r, slug))}

\* The loop of initialize over the listed agents, in the order of the list.
RECURSIVE initializeFrom(_, _)
initializeFrom(r, metas) ==
  IF metas = <<>> THEN r
  ELSE LET b == createVoltAgentInstance(r, Head(metas))
       IN initializeFrom(
            IF IsSome(b.ret)
            THEN [b.r EXCEPT !.active = Put(@, Head(metas), Val(b.ret)),
                             !.rt.succeeded = @ \cup {Head(metas)}]
            ELSE b.r,
            Tail(metas))

\* initialize that starts from an empty configuration cache.
initialize_FreshCache(r, agentMetadataList) ==
  initializeFrom([r EXCEPT !.rt.initialized = TRUE,
                           !.rt.listed = {agentMetadataList[i] :
                                            i \in DOMAIN agentMetadataList},
                           !.rt.succeeded = {},
                           !.mcp = EmptyMap],
                 agentMetadataList)

initialize(r, agentMetadataList) ==
  initializeFrom([r EXCEPT !.rt.initialized = TRUE,
                           !.rt.listed = {agentMetadataList[i] :
                                            i \in DOMAIN agentMetadataList},
                           !.rt.succeeded = {}],
                 agentMetadataList)

\* One turn of the loop of shutdown: disconnect inside try/catch.
disconnect(r, config) ==
  [r EXCEPT !.conn[config].disconnects = @ + 1,
            !.conn[config].open = IF DisconnectFails(config[2]) THEN @ ELSE FALSE]

RECURSIVE disconnectAll(_, _)
disconnectAll(r, keys) ==
  IF keys = {} THEN r
  ELSE LET mcpKey == CHOOSE k \in keys : TRUE
       IN disconnectAll(disconnect(r, r.mcp[mcpKey]), keys \ {mcpKey})

\* shutdown whose loop ends at the first disconnect that fails.
shutdown_StopAtFailure(r) ==
  LET failing == {k \in DOMAIN r.mcp : DisconnectFails(k[2])}
      first == IF failing = {} THEN DOMAIN r.mcp
               ELSE {CHOOSE k \in failing : TRUE}
  IN [disconnectAll(r, first) EXCEPT !.mcp = EmptyMap, !.active = EmptyMap,
                                     !.rt.shutdowns = @ + 1]

shutdown(r) ==
  [disconnectAll(r, DOMAIN r.mcp) EXCEPT !.mcp = EmptyMap, !.active = EmptyMap,
                                         !.rt.shutdowns = @ + 1]

\* switchAgent for an agent that is already loaded, which builds it again.
switchAgentLoaded_Rebuild(r, targetSlug) ==
  LET b == createVoltAgentInstance(r, targetSlug)
  IN IF IsSome(b.ret)
     THEN [r |-> [b.r EXCEPT !.active = Put(@, targetSlug, Val(b.ret))],
           ret |-> Val(b.ret)]
     ELSE [r |-> b.r, ret |-> r.active[targetSlug]]

\* switchAgent for an agent that is already loaded: activeAgents.get
switchAgentLoaded(r, targetSlug) == [r |-> r, ret |-> r.active[targetSlug]]

\* ------------------------------------------------------------ config loader
\* ConfigLoader: the agent.json files and the workflow files of the agents.
\* A name is a sequence of characters; a workflow filename is its base name
\* and its extension.
ConfigStore == [files |-> agentFiles, wf |-> agentWorkflowFiles]

\* String.prototype.toLowerCase on the characters in use
toLowerCase(chars) ==
  [i \in DOMAIN chars |->
     CASE chars[i] = "A" -> "a"
       [] chars[i] = "B" -> "b"
       [] chars[i] = ".TS" -> ".ts"
       [] chars[i] = ".JS" -> ".js"
       [] OTHER -> chars[i]]

\* [a-z0-9] among the characters in use
SlugChars == {"a", "b", "1"}

\* .replace(/[^a-z0-9]+/g, '-') : each run of other characters becomes one '-'
RECURSIVE DropRun(_)
DropRun(chars) ==
  IF chars = <<>> \/ Head(chars) \in SlugChars THEN chars ELSE DropRun(Tail(chars))
RECURSIVE replaceRuns(_)
replaceRuns(chars) ==
  IF chars = <<>> THEN <<>>
  ELSE IF Head(chars) \in SlugChars THEN <<Head(chars)>> \o replaceRuns(Tail(chars))
  ELSE <<"-">> \o replaceRuns(DropRun(chars))

\* .replace(/^-+|-+$/g, '')
RECURSIVE trimDashesStart(_)
trimDashesStart(chars) ==
  IF chars # <<>> /\ Head(chars) = "-" THEN trimDashesStart(Tail(chars)) ELSE chars
RECURSIVE trimDashesEnd(_)
trimDashesEnd(chars) ==
  IF chars # <<>> /\ chars[Len(chars)] = "-"
  THEN trimDashesEnd(SubSeq(chars, 1, Len(chars) - 1)) ELSE chars

\* createAgent: the slug generated from spec.name
generateSlug(name) == trimDashesEnd(trimDashesStart(replaceRuns(toLowerCase(name))))

agentExists(c, slug) == Has(c.files, slug)

saveAgent(c, slug, spec) == [c EXCEPT !.files = Put(@, slug, spec)]

\* createAgent up to its call of saveAgent: what it throws, or the slug it
\* is about to save under.
createAgentCheck(c, spec) ==
  LET slug == generateSlug(spec.name)
  IN IF slug = <<>> THEN [threw |-> "no alphanumeric character", slug |-> slug]
     ELSE IF agentExists(c, slug) THEN [threw |-> "already exists", slug |-> slug]
     ELSE [threw |-> "", slug |-> slug]

\* extname(filename).toLowerCase() is one of the workflow extensions
IsWorkflowExtension(filename) ==
  toLowerCase(<<filename.ext>>)[1] \in {".ts", ".js", ".mjs", ".cjs"}

getWorkflowPath(slug, filename) == <<slug, filename>>

\* The filenames in use, in the localeCompare order of their labels.
WorkflowLabelOrder ==
  <<[base |-> "flow", ext |-> ".ts"], [base |-> "notes", ext |-> ".txt"],
    [base |-> "other", ext |-> ".JS"]>>

listAgentWorkflows(c, slug) ==
  SelectSeq(WorkflowLabelOrder,
            LAMBDA filename : /\ Has(c.wf, getWorkflowPath(slug, filename))
                              /\ IsWorkflowExtension(filename))

\* createWorkflow that writes the file whether or not it exists.
createWorkflow_Overwrite(c, slug, filename, content) ==
  IF ~IsWorkflowExtension(filename) THEN [c |-> c, threw |-> "extension"]
  ELSE [c |-> [c EXCEPT !.wf = Put(@, getWorkflowPath(slug, filename), content)],
        threw |-> ""]

createWorkflow(c, slug, filename, content) ==
  IF ~IsWorkflowExtension(filename) THEN [c |-> c, threw |-> "extension"]
  ELSE IF Has(c.wf, getWorkflowPath(slug, filename))
  THEN [c |-> c, threw |-> "already exists"]
  ELSE [c |-> [c EXCEPT !.wf = Put(@, getWorkflowPath(slug, filename), content)],
        threw |-> ""]

readWorkflow(c, slug, workflowId) ==
  IF ~Has(c.wf, getWorkflowPath(slug, workflowId))
  THEN [ret |-> None, threw |-> "not found"]
  ELSE [ret |-> Some(c.wf[getWorkflowPath(slug, workflowId)]), threw |-> ""]

updateWorkflow(c, slug, workflowId, content) ==
  IF ~Has(c.wf, getWorkflowPath(slug, workflowId))
  THEN [c |-> c, threw |-> "not found"]
  ELSE [c |-> [c EXCEPT !.wf = Put(@, getWorkflowPath(slug, workflowId), content)],
        threw |-> ""]

deleteWorkflow(c, slug, workflowId) ==
  IF ~Has(c.wf, getWorkflowPath(slug, workflowId))
  THEN [c |-> c, threw |-> "not found"]
  ELSE [c |-> [c EXCEPT !.wf = Del(@, getWorkflowPath(slug, workflowId))],
        threw |-> ""]

\* ------------------------------------------------------- inputs of the calls
\* Partial<Conversation> objects handed to updateConversation: a plain merge,
\* one that carries the fields update must preserve, and one that carries id.
UpdatePartials ==
  {[title |-> "t1", metadata |-> {}],
   [userId |-> UserPlain, resourceId |-> ResB, createdAt |-> toISOString(0 - 1)],
   [id |-> "c2", title |-> "t2"]}

LimitInputs == {None, Some(1)}

QueryInputs ==
  {EmptyMap,
   [userId |-> UserAgentB, orderBy |-> "title", orderDirection |-> "ASC"],
   [resourceId |-> ResA, orderBy |-> "created_at", limit |-> 1, offset |-> 1]}

WmContents == {"note"}
WmArgs ==
  {[scope |-> "conversation", conversationId |-> Some(c), userId |-> Some(UserAgentB)] :
     c \in ConvIds}
  \cup {[scope |-> "conversation", conversationId |-> None, userId |-> Some(UserPlain)],
        [scope |-> "user", conversationId |-> Some("c1"), userId |-> Some(UserPlain)],
        [scope |-> "user", conversationId |-> None, userId |-> None]}

\* ----------------------------------------------------------------- actions
\* Writes the store record of adapter ad back into the variables.
WriteBack(ad, s) ==
  /\ convFiles' = s.cf
  /\ msgFiles' = s.mf
  /\ wmFiles' = s.wm
  /\ workflowFiles' = s.wf
  /\ conversationCache' = [conversationCache EXCEPT ![ad] = s.cc]
  /\ conversationResourceCache' = [conversationResourceCache EXCEPT ![ad] = s.rc]
  /\ UNCHANGED <<agentOrder, fileOrder, now>>
  /\ UNCHANGED <<agentFiles, agentWorkflowFiles, mcpConfigs, activeAgents,
                 connections, runtime>>

\* A call that runs from its start to its return in one step.
Commit(ad, s) ==
  /\ WriteBack(ad, s)
  /\ UNCHANGED inFlight
  /\ nOps' = nOps + 1

\* The bookkeeping of appendHistory for a call that appends messages to id, for a
\* call that clears or deletes the ids in cut, and for any other call.
NoteAppend(id, userId, messages) ==
  appendHistory' = [appendHistory EXCEPT ![id].seq = @ \o messages,
                                         ![id].users = @ \cup {userId}]
NoteCut(cut) ==
  appendHistory' = [c \in ConvIds |->
                      IF c \in cut THEN [seq |-> <<>>, users |-> {}, whole |-> FALSE]
                      ELSE appendHistory[c]]
NoteNothing == UNCHANGED appendHistory

CanCall == nOps < MaxOps
LogsFit(s) == \A p \in DOMAIN s.mf : Len(s.mf[p]) <= MaxLog

CreateConversation(ad) ==
  /\ CanCall
  /\ \E id \in ConvIds, resourceId \in CreateResources, profile \in CreateProfiles :
       LET input == [id |-> id, resourceId |-> resourceId, userId |-> profile.userId,
                     title |-> profile.title, metadata |-> profile.metadata]
           r == createConversation(Store(ad), input, now)
       IN /\ Commit(ad, r.s)
          /\ last' = [op |-> "createConversation", ad |-> ad, id |-> id,
                      input |-> input, ret |-> r.ret]
          /\ NoteNothing

GetConversation(ad) ==
  /\ CanCall
  /\ \E id \in ConvIds :
       LET r == getConversation(Store(ad), id)
       IN /\ Commit(ad, r.s)
          /\ last' = [op |-> "getConversation", ad |-> ad, id |-> id, ret |-> r.ret]
          /\ NoteNothing

GetConversations(ad) ==
  /\ CanCall
  /\ \E resourceId \in CreateResources :
       LET r == getConversations(Store(ad), resourceId)
       IN /\ Commit(ad, r.s)
          /\ last' = [op |-> "getConversations", ad |-> ad,
                      resourceId |-> resourceId, ret |-> r.ret]
          /\ NoteNothing

GetConversationsByUserId(ad) ==
  /\ CanCall
  /\ \E userId \in UserIds :
       LET r == getConversationsByUserId(Store(ad), userId, EmptyMap)
       IN /\ Commit(ad, r.s)
          /\ last' = [op |-> "getConversationsByUserId", ad |-> ad,
                      userId |-> userId, ret |-> r.ret]
          /\ NoteNothing

QueryConversations(ad) ==
  /\ CanCall
  /\ \E options \in QueryInputs :
       LET r == queryConversations(Store(ad), options)
       IN /\ Commit(ad, r.s)
          /\ last' = [op |-> "queryConversations", ad |-> ad,
                      options |-> options, ret |-> r.ret]
          /\ NoteNothing

UpdateConversation(ad) ==
  /\ CanCall
  /\ \E id \in ConvIds, updates \in UpdatePartials :
       LET r == updateConversation(Store(ad), id, updates, now)
       IN /\ Commit(ad, r.s)
          /\ last' = [op |-> "updateConversation", ad |-> ad, id |-> id,
                      updates |-> updates, at |-> now,
                      before |-> getConversation(Store(ad), id).ret,
                      threw |-> r.threw, ret |-> r.ret]
          /\ NoteNothing

DeleteConversation(ad) ==
  /\ CanCall
  /\ \E id \in ConvIds :
       /\ Commit(ad, deleteConversation(Store(ad), id))
       /\ last' = [op |-> "deleteConversation", ad |-> ad, id |-> id,
                   before |-> getConversation(Store(ad), id).ret,
                   owners |-> {r \in Resources : Has(convFiles, getConversationPath(r, id))}]
       /\ NoteCut({id})

AddMessage(ad) ==
  /\ CanCall
  /\ \E id \in ConvIds, userId \in UserIds, message \in Messages :
       LET s == addMessage(Store(ad), message, userId, id, now)
       IN /\ LogsFit(s)
          /\ Commit(ad, s)
          /\ last' = [op |-> "addMessage", ad |-> ad, id |-> id, userId |-> userId,
                      messages |-> <<message>>]
          /\ NoteAppend(id, userId, <<message>>)

AddMessages(ad) ==
  /\ CanCall
  /\ \E id \in ConvIds, userId \in UserIds, messages \in Batches :
       LET s == addMessages(Store(ad), messages, userId, id, now)
       IN /\ LogsFit(s)
          /\ Commit(ad, s)
          /\ last' = [op |-> "addMessages", ad |-> ad, id |-> id, userId |-> userId,
                      messages |-> messages]
          /\ NoteAppend(id, userId, messages)

GetMessages(ad) ==
  /\ CanCall
  /\ \E id \in ConvIds, userId \in UserIds, limit \in LimitInputs :
       LET r == getMessages(Store(ad), userId, id, limit)
       IN /\ Commit(ad, r.s)
          /\ last' = [op |-> "getMessages", ad |-> ad, id |-> id, userId |-> userId,
                      limit |-> limit, ret |-> r.ret]
          /\ NoteNothing

ClearMessages(ad) ==
  /\ CanCall
  /\ \E userId \in UserIds, conversationId \in {None} \cup {Some(c) : c \in ConvIds} :
       /\ Commit(ad, clearMessages(Store(ad), userId, conversationId))
       /\ last' = [op |-> "clearMessages", ad |-> ad, userId |-> userId,
                   conversationId |-> conversationId]
       /\ NoteCut(IF IsSome(conversationId) THEN {Val(conversationId)} ELSE ConvIds)

GetWorkingMemory(ad) ==
  /\ CanCall
  /\ \E a \in WmArgs :
       LET r == getWorkingMemory(Store(ad), a.conversationId, a.userId, a.scope)
       IN /\ Commit(ad, r.s)
          /\ last' = [op |-> "getWorkingMemory", ad |-> ad, args |-> a, ret |-> r.ret]
          /\ NoteNothing

SetWorkingMemory(ad) ==
  /\ CanCall
  /\ \E a \in WmArgs, content \in WmContents :
       LET r == setWorkingMemory(Store(ad), a.conversationId, a.userId, content,
                                 a.scope, now)
       IN /\ Commit(ad, r.s)
          /\ last' = [op |-> "setWorkingMemory", ad |-> ad, args |-> a,
                      content |-> content, threw |-> r.threw]
          /\ NoteNothing

DeleteWorkingMemory(ad) ==
  /\ CanCall
  /\ \E a \in WmArgs :
       /\ Commit(ad, deleteWorkingMemory(Store(ad), a.conversationId, a.userId, a.scope))
       /\ last' = [op |-> "deleteWorkingMemory", ad |-> ad, args |-> a]
       /\ NoteNothing

\* The wall clock moves on between calls, or does not: two calls can read
\* the same millisecond.
Tick ==
  /\ now < MaxTime
  /\ now' = now + 1
  /\ UNCHANGED <<convFiles, msgFiles, wmFiles, workflowFiles,
                 conversationCache, conversationResourceCache, agentOrder,
                 fileOrder, nOps, last, appendHistory, inFlight,
                 agentFiles, agentWorkflowFiles, mcpConfigs, activeAgents,
                 connections, runtime>>

\* Freshly constructed adapters.  Only the directories that can hold
\* conversation files matter to a scan, so agentOrder orders those.
AdaptersConstructed ==
  /\ conversationCache = [ad \in Adapters |-> EmptyMap]
  /\ conversationResourceCache = [ad \in Adapters |-> EmptyMap]
  /\ agentOrder \in SeqPerms(CreateResources)
  /\ fileOrder \in SeqPerms(ConvIds)
  /\ now = 0
  /\ nOps = 0
  /\ last = [op |-> "none"]
  /\ appendHistory = [c \in ConvIds |-> [seq |-> <<>>, users |-> {}, whole |-> TRUE]]
  /\ inFlight = [calls |-> EmptyMap, settled |-> EmptyMap]

\* A WorkAgentRuntime after its constructor: both maps empty, initialize not
\* yet called.
RuntimeConstructed ==
  /\ mcpConfigs = EmptyMap
  /\ activeAgents = EmptyMap
  /\ connections = EmptyMap
  /\ runtime = [initialized |-> FALSE, builds |-> EmptyMap,
                listed |-> {}, succeeded |-> {}, shutdowns |-> 0]

\* The adapters of a runtime whose agents directory holds no agent.json.
Constructed ==
  /\ AdaptersConstructed
  /\ agentFiles = EmptyMap
  /\ agentWorkflowFiles = EmptyMap
  /\ RuntimeConstructed

\* A fresh working directory.
Init ==
  /\ convFiles = EmptyMap
  /\ msgFiles = EmptyMap
  /\ wmFiles = EmptyMap
  /\ workflowFiles = EmptyMap
  /\ Constructed

\* One store: every call goes through the same adapter object.
\* The conversation store: metadata records, their queries, and the touch
\* that follows an append.
Next ==
  \/ CreateConversation(StoreAdapter)
  \/ GetConversation(StoreAdapter)
  \/ GetConversations(StoreAdapter)
  \/ GetConversationsByUserId(StoreAdapter)
  \/ QueryConversations(StoreAdapter)
  \/ UpdateConversation(StoreAdapter)
  \/ DeleteConversation(StoreAdapter)
  \/ AddMessage(StoreAdapter)
  \/ SetWorkingMemory(StoreAdapter)
  \/ Tick

Spec == Init /\ [][Next]_vars

\* The message log and the working memory of the conversations of that store.
NextMessages ==
  \/ CreateConversation(StoreAdapter)
  \/ DeleteConversation(StoreAdapter)
  \/ AddMessage(StoreAdapter)
  \/ AddMessages(StoreAdapter)
  \/ GetMessages(StoreAdapter)
  \/ ClearMessages(StoreAdapter)
  \/ GetWorkingMemory(StoreAdapter)
  \/ SetWorkingMemory(StoreAdapter)
  \/ DeleteWorkingMemory(StoreAdapter)
  \/ Tick

SpecMessages == Init /\ [][NextMessages]_vars

\* ------------------------------------------------- calls that overlap
\* An addMessage call and an updateConversation call that are in progress at
\* once on one adapter.  A call runs up to an await of file I/O in one step:
\* the append and the read of touchConversation (lines 422-426, 217-223), the read and
\* the merge of updateConversation (lines 554-565), then for both the
\* writeFile of persistConversation (line 209) and, after it, its
\* cacheConversation (line 210).
OverlapPartials ==
  {[title |-> "t2"], [userId |-> UserPlain, metadata |-> {<<"topic", "y">>}]}

Calls == inFlight.calls
Returned(call) == [inFlight EXCEPT !.calls = Del(@, call)]

Settle(f, id, conversation) == [f EXCEPT !.settled = Put(@, id, conversation)]

\* createConversation, called while no other call is in progress: the
\* overlap studied here is the one of a touch with an update.
OverlapCreate(ad) ==
  /\ CanCall
  /\ DOMAIN Calls = {}
  /\ \E id \in ConvIds, resourceId \in CreateResources, profile \in CreateProfiles :
       LET input == [id |-> id, resourceId |-> resourceId, userId |-> profile.userId,
                     title |-> profile.title, metadata |-> profile.metadata]
           r == createConversation(Store(ad), input, now)
       IN /\ WriteBack(ad, r.s)
          /\ nOps' = nOps + 1
          /\ inFlight' = Settle(inFlight, id, r.ret)
          /\ last' = [op |-> "createConversation", ad |-> ad, id |-> id,
                      input |-> input, ret |-> r.ret]
          /\ NoteNothing

\* addMessage up to the await in touchConversation's persistConversation:
\* resolveResourceId, appendFile, getConversation and the new updatedAt.
BeginAppend(ad) ==
  /\ CanCall
  /\ ~Has(Calls, "addMessage")
  /\ \E id \in ConvIds, userId \in UserIds, message \in Messages :
       LET r == resolveResourceId(Store(ad), Some(id), Some(userId))
           appended == [r.s EXCEPT !.mf = appendFile(@, getMessagesPath(r.ret, id),
                                                     <<JsonStringifyMessage(message)>>)]
           g == getConversation(appended, id)
       IN /\ LogsFit(g.s)
          /\ WriteBack(ad, g.s)
          /\ nOps' = nOps + 1
          /\ NoteAppend(id, userId, <<message>>)
          /\ IF ~IsSome(g.ret)
             THEN /\ inFlight' = inFlight
                  /\ last' = [op |-> "addMessage", ad |-> ad, id |-> id,
                              userId |-> userId, messages |-> <<message>>,
                              touched |-> FALSE]
             ELSE /\ inFlight' =
                       [inFlight EXCEPT !.calls =
                          Put(@, "addMessage",
                              [pc |-> "writeFile", id |-> id,
                               conversation |->
                                 [Val(g.ret) EXCEPT !.updatedAt = toISOString(now)]])]
                  /\ last' = [op |-> "begin", call |-> "addMessage", id |-> id]

\* updateConversation up to the await in its persistConversation.
BeginUpdate(ad) ==
  /\ CanCall
  /\ ~Has(Calls, "updateConversation")
  /\ \E id \in ConvIds, updates \in OverlapPartials :
       LET g == getConversation(Store(ad), id)
       IN /\ WriteBack(ad, g.s)
          /\ nOps' = nOps + 1
          /\ NoteNothing
          /\ IF ~IsSome(g.ret)
             THEN /\ inFlight' = inFlight
                  /\ last' = [op |-> "updateConversation", ad |-> ad, id |-> id,
                              updates |-> updates, threw |-> TRUE]
             ELSE /\ inFlight' =
                       [inFlight EXCEPT !.calls =
                          Put(@, "updateConversation",
                              [pc |-> "writeFile", id |-> id,
                               conversation |-> mergeConversation(Val(g.ret), updates, now)])]
                  /\ last' = [op |-> "begin", call |-> "updateConversation", id |-> id]

\* persistConversation, line 209: the writeFile of a call in progress.
PersistWriteFile(ad) ==
  \E call \in DOMAIN Calls :
    LET c == Calls[call]
        s == Store(ad)
    IN /\ c.pc = "writeFile"
       /\ WriteBack(ad, [s EXCEPT !.cf = Put(@, getConversationPath(c.conversation.resourceId,
                                                                   c.conversation.id),
                                             JsonStringifyConversation(c.conversation))])
       /\ inFlight' = [inFlight EXCEPT !.calls[call].pc = "cacheConversation"]
       /\ last' = [op |-> "writeFile", call |-> call, id |-> c.id]
       /\ UNCHANGED <<nOps, appendHistory>>

\* persistConversation, line 210, and the return of the call.
PersistCacheAndReturn(ad) ==
  \E call \in DOMAIN Calls :
    LET c == Calls[call]
    IN /\ c.pc = "cacheConversation"
       /\ WriteBack(ad, cacheConversation(Store(ad), c.conversation))
       /\ inFlight' = IF call = "updateConversation"
                      THEN Settle(Returned(call), c.id, c.conversation)
                      ELSE Returned(call)
       /\ last' = [op |-> "returned", call |-> call, id |-> c.id,
                   conversation |-> c.conversation]
       /\ UNCHANGED <<nOps, appendHistory>>

NextOverlap ==
  \/ OverlapCreate(StoreAdapter)
  \/ BeginAppend(StoreAdapter)
  \/ BeginUpdate(StoreAdapter)
  \/ PersistWriteFile(StoreAdapter)
  \/ PersistCacheAndReturn(StoreAdapter)
  \/ Tick

SpecOverlap == Init /\ [][NextOverlap]_vars

\* ------------------------------------------- adapters that share a directory
\* The runtime constructs one adapter per agent over one workAgentDir: each
\* has its own caches and all of them read and write the same files.
MaxSharedOps == 4
SharedConvIds == {"c1"}
SharedUserIds == {UserPlain}

CanCallShared == nOps < MaxSharedOps

\* What adapter ad holds about a conversation id before a call: the resource
\* id it has cached, whether the log path derived from it exists, and the
\* resource directories that hold a record of the id.
Before(ad, id) ==
  LET rc == conversationResourceCache[ad]
  IN [cached |-> IF Has(rc, id) THEN Some(rc[id]) ELSE None,
      cachedLogExists |-> Has(rc, id) /\ Has(msgFiles, getMessagesPath(rc[id], id)),
      owners |-> {r \in Resources : Has(convFiles, getConversationPath(r, id))}]

SharedCreate(ad) ==
  /\ CanCallShared
  /\ \E id \in SharedConvIds, resourceId \in CreateResources, profile \in CreateProfiles :
       LET input == [id |-> id, resourceId |-> resourceId, userId |-> profile.userId,
                     title |-> profile.title, metadata |-> profile.metadata]
           r == createConversation(Store(ad), input, now)
       IN /\ Commit(ad, r.s)
          /\ last' = [op |-> "createConversation", ad |-> ad, id |-> id,
                      input |-> input, ret |-> r.ret]
          /\ NoteNothing

SharedDelete(ad) ==
  /\ CanCallShared
  /\ \E id \in SharedConvIds :
       /\ Commit(ad, deleteConversation(Store(ad), id))
       /\ last' = [op |-> "deleteConversation", ad |-> ad, id |-> id]
       /\ NoteCut({id})

SharedAddMessage(ad) ==
  /\ CanCallShared
  /\ \E id \in SharedConvIds, userId \in SharedUserIds, message \in Messages :
       LET s == addMessage(Store(ad), message, userId, id, now)
       IN /\ LogsFit(s)
          /\ Commit(ad, s)
          /\ last' = [op |-> "addMessage", ad |-> ad, id |-> id, userId |-> userId,
                      messages |-> <<message>>, before |-> Before(ad, id),
                      logsBefore |-> msgFiles]
          /\ NoteAppend(id, userId, <<message>>)

SharedGetMessages(ad) ==
  /\ CanCallShared
  /\ \E id \in SharedConvIds, userId \in SharedUserIds :
       LET r == getMessages(Store(ad), userId, id, None)
       IN /\ Commit(ad, r.s)
          /\ last' = [op |-> "getMessages", ad |-> ad, id |-> id, userId |-> userId,
                      limit |-> None, ret |-> r.ret, before |-> Before(ad, id)]
          /\ NoteNothing

NextShared ==
  \/ \E ad \in Adapters : SharedCreate(ad)
  \/ \E ad \in Adapters : SharedDelete(ad)
  \/ \E ad \in Adapters : SharedAddMessage(ad)
  \/ \E ad \in Adapters : SharedGetMessages(ad)
  \/ Tick

SpecShared == Init /\ [][NextShared]_vars

\* ------------------------------------------------- a log that was damaged
\* An adapter constructed over a directory whose log of c1 holds, besides
\* lines that addMessage wrote, a line cut short by an interrupted write,
\* blank lines, and a written line with white space around it.
LineChoices ==
  {JsonStringifyMessage(MsgHi),
   JsonStringifyMessage(MsgHello),
   <<"{", "user">>,
   <<>>,
   <<" ">>,
   <<" ", "{", "assistant", "hello", "}", " ">>}

LogChoices == UNION {[1..n -> LineChoices] : n \in 0..MaxLog}

DamagedLimits == {None, Some(1), Some(2)}

InitDamaged ==
  /\ convFiles = EmptyMap
  /\ \E lines \in LogChoices :
       msgFiles = Put(EmptyMap, getMessagesPath(DefaultResource, "c1"), lines)
  /\ wmFiles = EmptyMap
  /\ workflowFiles = EmptyMap
  /\ Constructed

DamagedGetMessages(ad) ==
  /\ CanCall
  /\ \E userId \in UserIds, limit \in DamagedLimits :
       LET r == getMessages(Store(ad), userId, "c1", limit)
       IN /\ Commit(ad, r.s)
          /\ last' = [op |-> "getMessages", ad |-> ad, id |-> "c1", userId |-> userId,
                      limit |-> limit, ret |-> r.ret,
                      path |-> getMessagesPath(
                                 resolveResourceId(Store(ad), Some("c1"), Some(userId)).ret,
                                 "c1")]
          /\ NoteNothing

DamagedAddMessage(ad) ==
  /\ CanCall
  /\ \E message \in Messages :
       LET s == addMessage(Store(ad), message, UserPlain, "c1", now)
       IN /\ LogsFit(s)
          /\ Commit(ad, s)
          /\ last' = [op |-> "addMessage", ad |-> ad, id |-> "c1", userId |-> UserPlain,
                      messages |-> <<message>>]
          /\ NoteAppend("c1", UserPlain, <<message>>)

NextDamaged ==
  \/ DamagedGetMessages(StoreAdapter)
  \/ DamagedAddMessage(StoreAdapter)

SpecDamaged == InitDamaged /\ [][NextDamaged]_vars

\* ------------------------------------------- working memory and its layouts
\* An adapter constructed over a directory that may hold working-memory files
\* of the layout before scopes.  The keys are character sequences, each used
\* as a conversationId and as a userId; no conversation record exists, so the
\* resource of a call comes from its userId.
KeyPlain == <<"k">>
WmKeys == {KeyPlain, UserAgentB}

WmKeyArgs ==
  UNION {{[scope |-> "conversation", conversationId |-> Some(k), userId |-> None],
          [scope |-> "conversation", conversationId |-> Some(k), userId |-> Some(k)],
          [scope |-> "user", conversationId |-> None, userId |-> Some(k)],
          [scope |-> "user", conversationId |-> Some(k), userId |-> Some(k)]} :
         k \in WmKeys}

KeyContents == {"memo", "note"}

LegacyRecords ==
  {[memory |-> "old"], [content |-> "older"], [memory |-> "old", content |-> "older"]}

LegacyChoices ==
  {EmptyMap}
  \cup {Put(EmptyMap, getLegacyWorkingMemoryPath(DefaultResource, KeyPlain), rec) :
          rec \in LegacyRecords}
  \cup {Put(Put(EmptyMap, getLegacyWorkingMemoryPath(DefaultResource, KeyPlain),
                [memory |-> "old"]),
            getLegacyWorkingMemoryPath(ResB, UserAgentB), [content |-> "older"])}

InitLegacy ==
  /\ convFiles = EmptyMap
  /\ msgFiles = EmptyMap
  /\ wmFiles \in LegacyChoices
  /\ workflowFiles = EmptyMap
  /\ Constructed
  \* no conversation record is ever stored here, so no call reads a
  \* directory listing: one listing order stands for all of them
  /\ agentOrder = CHOOSE o \in SeqPerms(CreateResources) : TRUE
  /\ fileOrder = CHOOSE o \in SeqPerms(ConvIds) : TRUE

KeyGetWorkingMemory(ad) ==
  /\ CanCall
  /\ \E a \in WmKeyArgs :
       LET r == getWorkingMemory(Store(ad), a.conversationId, a.userId, a.scope)
       IN /\ Commit(ad, r.s)
          /\ last' = [op |-> "getWorkingMemory", ad |-> ad, args |-> a, ret |-> r.ret]
          /\ NoteNothing

KeySetWorkingMemory(ad) ==
  /\ CanCall
  /\ \E a \in WmKeyArgs, content \in KeyContents :
       LET r == setWorkingMemory(Store(ad), a.conversationId, a.userId, content,
                                 a.scope, now)
       IN /\ Commit(ad, r.s)
          /\ last' = [op |-> "setWorkingMemory", ad |-> ad, args |-> a,
                      content |-> content, threw |-> r.threw]
          /\ NoteNothing

KeyDeleteWorkingMemory(ad) ==
  /\ CanCall
  /\ \E a \in WmKeyArgs :
       /\ Commit(ad, deleteWorkingMemory(Store(ad), a.conversationId, a.userId, a.scope))
       /\ last' = [op |-> "deleteWorkingMemory", ad |-> ad, args |-> a]
       /\ NoteNothing

NextWorkingMemory ==
  \/ KeyGetWorkingMemory(StoreAdapter)
  \/ KeySetWorkingMemory(StoreAdapter)
  \/ KeyDeleteWorkingMemory(StoreAdapter)
  \/ Tick

SpecWorkingMemory == InitLegacy /\ [][NextWorkingMemory]_vars

\* ------------------------------------------------- workflow checkpoints
\* An adapter constructed over a directory whose workflows/states may hold a
\* file that is not a workflow-state entry.  Callers set and update the
\* entries of ExecIds; the payloads carry the time of the call.
ExecIds == {"e1", "e2"}
DamagedExecId == "e3"
WorkflowIds == {"w1", "w2"}

FullSuspension(t) == [suspendedAt |-> t, checkpoint |-> "cp1", reason |-> "r1"]

Entry(executionId, workflowId, status, suspension, t) ==
  [executionId |-> executionId, workflowId |-> workflowId, status |-> status,
   createdAt |-> t, updatedAt |-> t, suspension |-> suspension]

\* WorkflowStateEntry values passed to setWorkflowState(key, state): running,
\* suspended under either workflow, completed, and one whose executionId is
\* not the key.
SetStates(key, t) ==
  {Entry(key, "w1", "running", None, t),
   Entry(key, "w1", "suspended", Some(FullSuspension(t)), t),
   Entry(key, "w2", "suspended", Some(FullSuspension(t)), t),
   Entry(key, "w1", "completed", None, t)}
  \cup {Entry(other, "w1", "running", None, t) : other \in ExecIds \ {key}}

\* Partial<WorkflowStateEntry> values passed to updateWorkflowState: no
\* suspension key, suspension: undefined, a suspension naming one or two of
\* its fields, a whole suspension, and identity fields.
WorkflowPartials(key, t) ==
  {[status |-> "running"],
   [status |-> "completed", suspension |-> None],
   [suspension |-> Some([checkpoint |-> "cp2"])],
   [suspension |-> Some([suspendedAt |-> t, reason |-> "r2"])],
   [status |-> "suspended", suspension |-> Some(FullSuspension(t))]}
  \cup {[executionId |-> other, createdAt |-> t] : other \in ExecIds \ {key}}

WorkflowDirChoices ==
  {EmptyMap,
   Put(EmptyMap, getWorkflowStatePath(DamagedExecId), [garbage |-> "{"]),
   Put(EmptyMap, getWorkflowStatePath(DamagedExecId), [literal |-> "null"])}

InitWorkflow ==
  /\ convFiles = EmptyMap
  /\ msgFiles = EmptyMap
  /\ wmFiles = EmptyMap
  /\ workflowFiles \in WorkflowDirChoices
  /\ Constructed
  \* no workflow call lists a conversation directory: one listing order
  \* stands for all of them
  /\ agentOrder = CHOOSE o \in SeqPerms(CreateResources) : TRUE
  /\ fileOrder = CHOOSE o \in SeqPerms(ConvIds) : TRUE

GetWorkflowState(ad) ==
  /\ CanCall
  /\ \E id \in ExecIds \cup {DamagedExecId} :
       /\ Commit(ad, Store(ad))
       /\ last' = [op |-> "getWorkflowState", ad |-> ad, id |-> id,
                   ret |-> getWorkflowState(Store(ad), id)]
       /\ NoteNothing

SetWorkflowState(ad) ==
  /\ CanCall
  /\ \E id \in ExecIds :
       \E state \in SetStates(id, now) :
         LET r == setWorkflowState(Store(ad), id, state)
         IN /\ Commit(ad, r.s)
            /\ last' = [op |-> "setWorkflowState", ad |-> ad, id |-> id,
                        state |-> state, threw |-> r.threw]
            /\ NoteNothing

UpdateWorkflowState(ad) ==
  /\ CanCall
  /\ \E id \in ExecIds :
       \E updates \in WorkflowPartials(id, now) :
         LET r == updateWorkflowState(Store(ad), id, updates, now)
         IN /\ Commit(ad, r.s)
            /\ last' = [op |-> "updateWorkflowState", ad |-> ad, id |-> id,
                        updates |-> updates, threw |-> r.threw]
            /\ NoteNothing

GetSuspendedWorkflowStates(ad) ==
  /\ CanCall
  /\ \E workflowId \in WorkflowIds, order \in SeqPerms(ExecIds \cup {DamagedExecId}) :
       LET r == getSuspendedWorkflowStates(Store(ad), workflowId, order)
       IN /\ Commit(ad, Store(ad))
          /\ last' = [op |-> "getSuspendedWorkflowStates", ad |-> ad,
                      workflowId |-> workflowId, ret |-> r.ret, threw |-> r.threw]
          /\ NoteNothing

NextWorkflow ==
  \/ GetWorkflowState(StoreAdapter)
  \/ SetWorkflowState(StoreAdapter)
  \/ UpdateWorkflowState(StoreAdapter)
  \/ GetSuspendedWorkflowStates(StoreAdapter)
  \/ Tick

SpecWorkflow == InitWorkflow /\ [][NextWorkflow]_vars

\* ------------------------------------------------- the runtime's lifecycle
\* A runtime constructed over a directory of agents.  The CLI awaits
\* initialize before any other call; afterwards switchAgent, the management
\* API (which ends in initialize) and shutdown are called, a switchAgent may
\* start while another has not returned, and an agent.json may be added to the
\* directory by hand.
SpecWildcard ==
  [prompt |-> "p1", model |-> "m1",
   tools |-> Some([use |-> <<"files", "web">>, allowed |-> Some({"*", "files_read"})])]
SpecListed ==
  [prompt |-> "p2", model |-> "m1",
   tools |-> Some([use |-> <<"files", "down", "web">>,
                   allowed |-> Some({"files_read", "web_fetch", "absent_tool"})])]
SpecFailing ==
  [prompt |-> "p3", model |-> "m1",
   tools |-> Some([use |-> <<"odd", "ghost", "calc", "files">>, allowed |-> None])]
SpecNoTools == [prompt |-> "p4", model |-> "m1", tools |-> None]
SpecUnavailable ==
  [prompt |-> "p5", model |-> "unavailable",
   tools |-> Some([use |-> <<"files">>, allowed |-> Some({})])]

AgentSpecChoices == {SpecWildcard, SpecListed, SpecFailing, SpecNoTools, SpecUnavailable}

AgentDirChoices ==
  {[slug \in {"writer", "coder"} |-> IF slug = "writer" THEN SpecWildcard ELSE SpecListed],
   [slug \in {"writer", "coder"} |-> IF slug = "writer" THEN SpecFailing
                                     ELSE SpecUnavailable],
   [slug \in {"writer", "coder"} |-> IF slug = "writer" THEN SpecListed
                                     ELSE [garbage |-> "{"]],
   [slug \in {"writer"} |-> SpecWildcard]}

SwitchCalls == {"s1", "s2"}

InitRuntime ==
  /\ convFiles = EmptyMap
  /\ msgFiles = EmptyMap
  /\ wmFiles = EmptyMap
  /\ workflowFiles = EmptyMap
  /\ AdaptersConstructed
  \* no runtime call lists a conversation directory: one listing order
  \* stands for all of them
  /\ agentOrder = CHOOSE o \in SeqPerms(CreateResources) : TRUE
  /\ fileOrder = CHOOSE o \in SeqPerms(ConvIds) : TRUE
  /\ agentFiles \in AgentDirChoices
  /\ agentWorkflowFiles = EmptyMap
  /\ RuntimeConstructed

RuntimeWriteBack(r) ==
  /\ agentFiles' = r.files
  /\ mcpConfigs' = r.mcp
  /\ activeAgents' = r.active
  /\ connections' = r.conn
  /\ runtime' = r.rt
  /\ UNCHANGED <<convFiles, msgFiles, wmFiles, workflowFiles, conversationCache,
                 conversationResourceCache, agentOrder, fileOrder, now, appendHistory,
                 agentWorkflowFiles>>

\* initialize(), also as the CLI calls it at startup
Initialize ==
  /\ CanCall
  /\ \E agentMetadataList \in SeqPerms(listAgents(RuntimeStore)) :
       /\ RuntimeWriteBack(initialize(RuntimeStore, agentMetadataList))
       /\ last' = [op |-> "initialize"]
  /\ nOps' = nOps + 1
  /\ UNCHANGED inFlight

\* switchAgent up to its await of createVoltAgentInstance, or to its return
\* of the agent that is already loaded
SwitchAgentBegin(call) ==
  /\ CanCall
  /\ runtime.initialized
  /\ call \notin DOMAIN Calls
  /\ \E targetSlug \in Slugs :
       IF Has(activeAgents, targetSlug)
       THEN LET loaded == switchAgentLoaded(RuntimeStore, targetSlug)
            IN /\ RuntimeWriteBack(loaded.r)
               /\ inFlight' = Settle(inFlight, call,
                                     [agent |-> loaded.ret, overlapped |-> FALSE])
               /\ last' = [op |-> "switchAgent", call |-> call, slug |-> targetSlug,
                           ret |-> Some(loaded.ret), built |-> FALSE]
       ELSE LET others == {c \in DOMAIN Calls : Calls[c].slug = targetSlug}
            IN /\ inFlight' =
                    [inFlight EXCEPT
                       !.calls = [c \in DOMAIN Calls \cup {call} |->
                                    IF c = call
                                    THEN [op |-> "switchAgent", slug |-> targetSlug,
                                          overlapped |-> others # {}]
                                    ELSE IF c \in others
                                    THEN [Calls[c] EXCEPT !.overlapped = TRUE]
                                    ELSE Calls[c]],
                       !.settled = Del(@, call)]
               /\ last' = [op |-> "switchAgent:await", call |-> call, slug |-> targetSlug]
               /\ RuntimeWriteBack(RuntimeStore)
  /\ nOps' = nOps + 1

\* the rest of switchAgent: createVoltAgentInstance, activeAgents.set, return
SwitchAgentFinish(call) ==
  /\ call \in DOMAIN Calls
  /\ LET targetSlug == Calls[call].slug
         b == createVoltAgentInstance(RuntimeStore, targetSlug)
     IN IF IsSome(b.ret)
        THEN /\ RuntimeWriteBack([b.r EXCEPT !.active = Put(@, targetSlug, Val(b.ret))])
             /\ inFlight' = Settle(Returned(call), call,
                                   [agent |-> Val(b.ret),
                                    overlapped |-> Calls[call].overlapped])
             /\ last' = [op |-> "switchAgent", call |-> call, slug |-> targetSlug,
                         ret |-> b.ret, built |-> TRUE]
        ELSE /\ RuntimeWriteBack(b.r)
             /\ inFlight' = Returned(call)
             /\ last' = [op |-> "switchAgent", call |-> call, slug |-> targetSlug,
                         ret |-> None, built |-> TRUE]
  /\ UNCHANGED nOps

\* PUT /agents/:slug : configLoader.updateAgent, then initialize
UpdateAgentApi ==
  /\ CanCall
  /\ runtime.initialized
  /\ \E slug \in Slugs, updates \in AgentSpecChoices :
       LET existing == loadAgent(RuntimeStore, slug)
           saved == [RuntimeStore EXCEPT !.files = Put(@, slug, Spread(Val(existing), updates))]
       IN IF ~IsSome(existing)
          THEN /\ RuntimeWriteBack(RuntimeStore)
               /\ last' = [op |-> "updateAgent", slug |-> slug, status |-> 400]
          ELSE \E agentMetadataList \in SeqPerms(listAgents(saved)) :
                 /\ RuntimeWriteBack(initialize(saved, agentMetadataList))
                 /\ last' = [op |-> "updateAgent", slug |-> slug, status |-> 200]
  /\ nOps' = nOps + 1
  /\ UNCHANGED inFlight

\* DELETE /agents/:slug : activeAgents.delete, configLoader.deleteAgent, then
\* initialize
DeleteAgentApi ==
  /\ CanCall
  /\ runtime.initialized
  /\ \E slug \in Slugs :
       LET drained == [RuntimeStore EXCEPT !.active = Del(@, slug)]
           removed == [drained EXCEPT !.files = Del(@, slug)]
       IN IF ~Has(agentFiles, slug)
          THEN /\ RuntimeWriteBack(drained)
               /\ last' = [op |-> "deleteAgent", slug |-> slug, status |-> 400]
          ELSE \E agentMetadataList \in SeqPerms(listAgents(removed)) :
                 /\ RuntimeWriteBack(initialize(removed, agentMetadataList))
                 /\ last' = [op |-> "deleteAgent", slug |-> slug, status |-> 204]
  /\ nOps' = nOps + 1
  /\ UNCHANGED inFlight

Shutdown ==
  /\ CanCall
  /\ runtime.initialized
  /\ RuntimeWriteBack(shutdown(RuntimeStore))
  /\ last' = [op |-> "shutdown"]
  /\ nOps' = nOps + 1
  /\ UNCHANGED inFlight

\* An agent.json written into the directory by hand, for an agent that has none.
AddAgentFile ==
  /\ runtime.initialized
  /\ \E slug \in Slugs, spec \in AgentSpecChoices :
       /\ ~Has(agentFiles, slug)
       /\ RuntimeWriteBack([RuntimeStore EXCEPT !.files = Put(@, slug, spec)])
       /\ last' = [op |-> "addAgentFile", slug |-> slug]
  /\ UNCHANGED <<nOps, inFlight>>

NextRuntime ==
  \/ Initialize
  \/ \E call \in SwitchCalls : SwitchAgentBegin(call)
  \/ \E call \in SwitchCalls : SwitchAgentFinish(call)
  \/ UpdateAgentApi
  \/ DeleteAgentApi
  \/ Shutdown
  \/ AddAgentFile

SpecRuntime == InitRuntime /\ [][NextRuntime]_vars

\* ------------------------------------------------- the configuration files
\* The management calls of a ConfigLoader over a working directory: agents
\* are created (two createAgent calls may overlap: createAgent awaits between
\* its test of agentExists and the end of saveAgent) and updated, and the
\* workflow files of an agent are created, read, updated, deleted and listed.
AgentNames ==
  {<<"A", " ", "b">>, <<"a", "!", "!", "B", "!">>, <<"-", "b", "1">>, <<"!", " ">>}
AgentPrompts == {"p1", "p2"}
AgentUpdates == {[prompt |-> "p3"]}
ConfigCalls == {"k1", "k2"}
WorkflowSlugs == {generateSlug(<<"A", " ", "b">>), generateSlug(<<"-", "b", "1">>)}
WorkflowFilenames == {WorkflowLabelOrder[i] : i \in DOMAIN WorkflowLabelOrder}
WorkflowContents == {"v1", "v2"}

\* A working directory without agents; a file that is no workflow may lie in
\* a workflows directory.
InitConfig ==
  /\ convFiles = EmptyMap
  /\ msgFiles = EmptyMap
  /\ wmFiles = EmptyMap
  /\ workflowFiles = EmptyMap
  /\ AdaptersConstructed
  /\ agentOrder = CHOOSE o \in SeqPerms(CreateResources) : TRUE
  /\ fileOrder = CHOOSE o \in SeqPerms(ConvIds) : TRUE
  /\ agentFiles = EmptyMap
  /\ agentWorkflowFiles \in
       {EmptyMap,
        [path \in {getWorkflowPath(generateSlug(<<"-", "b", "1">>),
                                   [base |-> "notes", ext |-> ".txt"])} |-> "v1"]}
  /\ RuntimeConstructed

ConfigWriteBack(c) ==
  /\ agentFiles' = c.files
  /\ agentWorkflowFiles' = c.wf
  /\ UNCHANGED <<convFiles, msgFiles, wmFiles, workflowFiles, conversationCache,
                 conversationResourceCache, agentOrder, fileOrder, now, appendHistory,
                 mcpConfigs, activeAgents, connections, runtime>>

\* createAgent up to its await of saveAgent, or to its throw
CreateAgentBegin(call) ==
  /\ CanCall
  /\ call \notin DOMAIN Calls
  /\ \E name \in AgentNames, prompt \in AgentPrompts :
       LET spec == [name |-> name, prompt |-> prompt]
           check == createAgentCheck(ConfigStore, spec)
       IN IF check.threw # ""
          THEN /\ inFlight' = [inFlight EXCEPT !.settled = Del(@, call)]
               /\ last' = [op |-> "createAgent", call |-> call, slug |-> check.slug,
                           spec |-> spec, threw |-> check.threw]
          ELSE /\ inFlight' =
                    [inFlight EXCEPT
                       !.calls = Put(@, call, [op |-> "createAgent",
                                               slug |-> check.slug, spec |-> spec]),
                       !.settled = Del(@, call)]
               /\ last' = [op |-> "createAgent:await", call |-> call,
                           slug |-> check.slug, spec |-> spec]
  /\ ConfigWriteBack(ConfigStore)
  /\ nOps' = nOps + 1

\* the rest of createAgent: saveAgent writes agent.json, createAgent returns
CreateAgentSave(call) ==
  /\ call \in DOMAIN Calls
  /\ ConfigWriteBack(saveAgent(ConfigStore, Calls[call].slug, Calls[call].spec))
  /\ inFlight' = Settle(Returned(call), call,
                        [slug |-> Calls[call].slug, spec |-> Calls[call].spec])
  /\ last' = [op |-> "createAgent", call |-> call, slug |-> Calls[call].slug,
              spec |-> Calls[call].spec, threw |-> ""]
  /\ UNCHANGED nOps

UpdateAgentFile ==
  /\ CanCall
  /\ \E slug \in WorkflowSlugs, updates \in AgentUpdates :
       LET existing == loadAgent(ConfigStore, slug)
       IN IF ~IsSome(existing)
          THEN /\ ConfigWriteBack(ConfigStore)
               /\ last' = [op |-> "updateAgent", slug |-> slug, threw |-> "not found"]
          ELSE /\ ConfigWriteBack(saveAgent(ConfigStore, slug,
                                            Spread(Val(existing), updates)))
               /\ last' = [op |-> "updateAgent", slug |-> slug, threw |-> ""]
  /\ nOps' = nOps + 1
  /\ UNCHANGED inFlight

CreateWorkflow ==
  /\ CanCall
  /\ \E slug \in WorkflowSlugs, filename \in WorkflowFilenames,
        content \in WorkflowContents :
       LET r == createWorkflow(ConfigStore, slug, filename, content)
       IN /\ ConfigWriteBack(r.c)
          /\ last' = [op |-> "createWorkflow", slug |-> slug, workflowId |-> filename,
                      content |-> content, threw |-> r.threw]
  /\ nOps' = nOps + 1
  /\ UNCHANGED inFlight

ReadWorkflow ==
  /\ CanCall
  /\ \E slug \in WorkflowSlugs, workflowId \in WorkflowFilenames :
       LET r == readWorkflow(ConfigStore, slug, workflowId)
       IN /\ ConfigWriteBack(ConfigStore)
          /\ last' = [op |-> "readWorkflow", slug |-> slug, workflowId |-> workflowId,
                      ret |-> r.ret, threw |-> r.threw]
  /\ nOps' = nOps + 1
  /\ UNCHANGED inFlight

UpdateWorkflow ==
  /\ CanCall
  /\ \E slug \in WorkflowSlugs, workflowId \in WorkflowFilenames,
        content \in WorkflowContents :
       LET r == updateWorkflow(ConfigStore, slug, workflowId, content)
       IN /\ ConfigWriteBack(r.c)
          /\ last' = [op |-> "updateWorkflow", slug |-> slug, workflowId |-> workflowId,
                      content |-> content, threw |-> r.threw]
  /\ nOps' = nOps + 1
  /\ UNCHANGED inFlight

DeleteWorkflow ==
  /\ CanCall
  /\ \E slug \in WorkflowSlugs, workflowId \in WorkflowFilenames :
       LET r == deleteWorkflow(ConfigStore, slug, workflowId)
       IN /\ ConfigWriteBack(r.c)
          /\ last' = [op |-> "deleteWorkflow", slug |-> slug, workflowId |-> workflowId,
                      threw |-> r.threw]
  /\ nOps' = nOps + 1
  /\ UNCHANGED inFlight

ListAgentWorkflows ==
  /\ CanCall
  /\ \E slug \in WorkflowSlugs :
       /\ ConfigWriteBack(ConfigStore)
       /\ last' = [op |-> "listAgentWorkflows", slug |-> slug,
                   ret |-> listAgentWorkflows(ConfigStore, slug)]
  /\ nOps' = nOps + 1
  /\ UNCHANGED inFlight

NextConfig ==
  \/ \E call \in ConfigCalls : CreateAgentBegin(call)
  \/ \E call \in ConfigCalls : CreateAgentSave(call)
  \/ UpdateAgentFile
  \/ CreateWorkflow
  \/ ReadWorkflow
  \/ UpdateWorkflow
  \/ DeleteWorkflow
  \/ ListAgentWorkflows

SpecConfig == InitConfig /\ [][NextConfig]_vars

\* ------------------------------------------- a delete among calls in progress
\* deleteConversation called while an addMessage or an updateConversation of
\* the same adapter is waiting for the writeFile of its persistConversation.
OverlapDelete(ad) ==
  /\ CanCall
  /\ \E id \in ConvIds :
       /\ WriteBack(ad, deleteConversation(Store(ad), id))
       /\ nOps' = nOps + 1
       /\ inFlight' = [inFlight EXCEPT !.settled = Del(@, id)]
       /\ last' = [op |-> "deleteConversation", ad |-> ad, id |-> id,
                   during |-> {call \in DOMAIN Calls : Calls[call].id = id}]
       /\ NoteCut({id})

NextOverlapDelete ==
  \/ OverlapCreate(StoreAdapter)
  \/ BeginAppend(StoreAdapter)
  \/ BeginUpdate(StoreAdapter)
  \/ PersistWriteFile(StoreAdapter)
  \/ PersistCacheAndReturn(StoreAdapter)
  \/ OverlapDelete(StoreAdapter)
  \/ Tick

SpecOverlapDelete == Init /\ [][NextOverlapDelete]_vars

\* ------------------------------------------- user ids that differ in a sign
\* An adapter over an empty directory whose user-scoped working memory is
\* used by user ids that differ only in a character that sanitizeId replaces.
\* None of them names an agent and no conversation exists, so every call
\* resolves to the default resource.
SignUserIds == {<<"u", ".", "1">>, <<"u", "@", "1">>, <<"u", "_", "1">>, <<"u", "2">>}

SignArgs == {[scope |-> "user", conversationId |-> None, userId |-> Some(u)] :
               u \in SignUserIds}

SignGetWorkingMemory(ad) ==
  /\ CanCall
  /\ \E a \in SignArgs :
       LET r == getWorkingMemory(Store(ad), a.conversationId, a.userId, a.scope)
       IN /\ Commit(ad, r.s)
          /\ last' = [op |-> "getWorkingMemory", ad |-> ad, args |-> a, ret |-> r.ret]
          /\ NoteNothing

SignSetWorkingMemory(ad) ==
  /\ CanCall
  /\ \E a \in SignArgs, content \in KeyContents :
       LET r == setWorkingMemory(Store(ad), a.conversationId, a.userId, content,
                                 a.scope, now)
       IN /\ Commit(ad, r.s)
          /\ last' = [op |-> "setWorkingMemory", ad |-> ad, args |-> a,
                      content |-> content, threw |-> r.threw]
          /\ NoteNothing

SignDeleteWorkingMemory(ad) ==
  /\ CanCall
  /\ \E a \in SignArgs :
       /\ Commit(ad, deleteWorkingMemory(Store(ad), a.conversationId, a.userId, a.scope))
       /\ last' = [op |-> "deleteWorkingMemory", ad |-> ad, args |-> a]
       /\ NoteNothing

NextSign ==
  \/ SignGetWorkingMemory(StoreAdapter)
  \/ SignSetWorkingMemory(StoreAdapter)
  \/ SignDeleteWorkingMemory(StoreAdapter)
  \/ Tick

SpecSign == Init /\ [][NextSign]_vars

\* ------------------------------------------------------------------ claims
\* What the store answers in the current state.
GetNow(id) == getConversation(Store(StoreAdapter), id).ret
ReadNow(userId, id, limitOpt) == getMessages(Store(StoreAdapter), userId, id, limitOpt).ret
WorkingMemoryNow(userId, id) ==
  getWorkingMemory(Store(StoreAdapter), Some(id), Some(userId), "conversation").ret
QueryNow(options) == queryConversations(Store(StoreAdapter), options).ret
Owners(id) == {r \in Resources : Has(convFiles, getConversationPath(r, id))}
StoredConversations ==
  {JsonParseConversation(convFiles[p]) : p \in DOMAIN convFiles}

\* C1: a get issued right after create(resourceId, userId, id, title, metadata)
\* returns the created record, equal to it in every field, whatever was done
\* to other conversation ids before.
CreateThenGetRoundTrip ==
  last.op = "createConversation" =>
    /\ GetNow(last.id) = Some(last.ret)
    /\ last.ret.id = last.input.id
    /\ last.ret.resourceId = last.input.resourceId
    /\ last.ret.userId = last.input.userId
    /\ last.ret.title = last.input.title
    /\ last.ret.metadata =
         (IF IsSome(last.input.metadata) THEN Val(last.input.metadata) ELSE {})
    /\ last.ret.createdAt = last.ret.updatedAt

\* A create of an id that was created before with other values, while a
\* record of another id is stored.
CreateThenGetWitness ==
  /\ last.op = "createConversation"
  /\ nOps >= 3
  /\ \E p \in DOMAIN convFiles : p[2] # last.id
  /\ GetNow(last.id) = Some(last.ret)

\* C2: at most one resource directory holds a metadata record for an id.
OneOwnerPerConversation ==
  \A id \in ConvIds : Cardinality(Owners(id)) <= 1

\* C3: an update of an existing conversation merges the given fields into the
\* record stored for that id and bumps its updatedAt, and leaves its id,
\* resourceId and createdAt as they were, whatever the partial carries.
UpdateMergesAndPreservesIdentity ==
  (last.op = "updateConversation" /\ ~last.threw) =>
    LET old == Val(last.before)
        Merged(f) == IF f \in DOMAIN last.updates THEN last.updates[f] ELSE old[f]
    IN /\ IsSome(GetNow(last.id))
       /\ Val(GetNow(last.id)).id = old.id
       /\ Val(GetNow(last.id)).resourceId = old.resourceId
       /\ Val(GetNow(last.id)).createdAt = old.createdAt
       /\ Val(GetNow(last.id)).updatedAt = toISOString(last.at)
       /\ Val(GetNow(last.id)).title = Merged("title")
       /\ Val(GetNow(last.id)).userId = Merged("userId")
       /\ Val(GetNow(last.id)).metadata = Merged("metadata")

\* C4: an update of an id that no resource holds a record for throws and
\* changes no file and no cache entry.
UpdateOfUnknownIdChangesNothing ==
  [][(nOps' = nOps + 1 /\ last'.op = "updateConversation" /\ Owners(last'.id) = {})
       => /\ last'.threw
          /\ UNCHANGED <<convFiles, msgFiles, wmFiles, workflowFiles,
                         conversationCache, conversationResourceCache>>]_vars

\* A failed update in a store that holds files, of an id that was deleted.
UpdateOfUnknownIdWitness ==
  /\ last.op = "updateConversation"
  /\ last.threw
  /\ Owners(last.id) = {}
  /\ (DOMAIN convFiles # {} \/ DOMAIN msgFiles # {} \/ DOMAIN wmFiles # {})

\* C9: after an append to an existing conversation the query ordered by
\* updated_at DESC lists that conversation first.
AppendMovesConversationToFront ==
  (last.op = "addMessage" /\ IsSome(GetNow(last.id))) =>
    LET q == QueryNow([orderBy |-> "updated_at", orderDirection |-> "DESC"])
    IN q # <<>> /\ q[1].id = last.id

\* C10: a query returns the stored conversations that match the filters, each
\* id once, sorted by the requested key and direction, cut to the positions
\* [offset, offset + limit).
FilterChoices ==
  {u @@ r : u \in {EmptyMap} \cup {[userId |-> x] : x \in UserIds},
            r \in {EmptyMap} \cup {[resourceId |-> x] : x \in CreateResources}}
OrderChoices ==
  {o @@ d : o \in {EmptyMap} \cup {[orderBy |-> x] : x \in {"created_at", "updated_at", "title"}},
            d \in {EmptyMap} \cup {[orderDirection |-> x] : x \in {"ASC", "DESC"}}}
PageChoices == {EmptyMap, [limit |-> 1], [offset |-> 1], [limit |-> 1, offset |-> 1],
                [limit |-> 0]}

InOrder(x, y, order) ==
  LET by == IF "orderBy" \in DOMAIN order THEN order.orderBy ELSE "updated_at"
      asc == "orderDirection" \in DOMAIN order /\ order.orderDirection = "ASC"
      Key(c) == IF by = "title" THEN CollationIndex(c.title)
                ELSE IF by = "created_at" THEN getTime(c.createdAt)
                ELSE getTime(c.updatedAt)
  IN IF asc THEN Key(x) <= Key(y) ELSE Key(x) >= Key(y)

QueryReturnsMatchesOnceSortedPaged ==
  \A filter \in FilterChoices, order \in OrderChoices, page \in PageChoices :
    LET all == QueryNow(filter @@ order)
        got == QueryNow(filter @@ order @@ page)
        offset == IF "offset" \in DOMAIN page THEN page.offset ELSE 0
        limit == IF "limit" \in DOMAIN page THEN page.limit ELSE Len(all)
        matching == {c \in StoredConversations :
                       /\ ("userId" \in DOMAIN filter => c.userId = filter.userId)
                       /\ ("resourceId" \in DOMAIN filter => c.resourceId = filter.resourceId)}
    IN /\ \A i, j \in DOMAIN all : i # j => all[i].id # all[j].id
       /\ {all[i] : i \in DOMAIN all} = matching
       /\ \A i, j \in DOMAIN all : i < j => InOrder(all[i], all[j], order)
       /\ \A i \in DOMAIN got : offset + i <= Len(all) /\ got[i] = all[offset + i]
       /\ \A k \in DOMAIN all : (offset < k /\ k <= offset + limit) => k - offset \in DOMAIN got

\* C5: after delete of an existing conversation its metadata, its message log
\* and its conversation-scoped working memory are gone: get, read and the
\* working-memory get all report nothing for that id.  (Stated for a
\* conversation that had one owner when delete was called.)
DeleteRemovesEverything ==
  (last.op = "deleteConversation" /\ IsSome(last.before) /\ Cardinality(last.owners) = 1) =>
    /\ GetNow(last.id) = None
    /\ \A u \in UserIds : ReadNow(u, last.id, None) = <<>>
    /\ \A u \in UserIds : WorkingMemoryNow(u, last.id) = None

\* C6: the messages appended to a conversation, with no clear or delete in
\* between, are what a read without limit returns, in append order, wherever
\* the create call falls among the appends.  (Stated for appends and a read
\* that all carry one user id; the claim allows any.)
ReadReturnsAllAppended ==
  \A c \in ConvIds, u \in UserIds :
    (appendHistory[c].whole /\ appendHistory[c].users = {u}) =>
      ReadNow(u, c, None) = appendHistory[c].seq

\* C7: a read with limit K >= 1 returns the last min(K, N) of the N messages
\* of the log, in their order.
IsTailOf(got, full, K) ==
  LET n == Len(full)
      m == IF K < n THEN K ELSE n
  IN Len(got) = m /\ \A i \in 1..m : got[i] = full[n - m + i]

LimitReturnsTail ==
  /\ (last.op = "getMessages" /\ IsSome(last.limit)) =>
       IsTailOf(last.ret, ReadNow(last.userId, last.id, None), Val(last.limit))
  /\ \A p \in DOMAIN msgFiles, K \in 1..(MaxLog + 1) :
       IsTailOf(applyLimit(parseLines(msgFiles[p]), Some(K)), parseLines(msgFiles[p]), K)

\* A read with limit 1 of a log of at least two different messages.
LimitReturnsTailWitness ==
  /\ last.op = "getMessages"
  /\ last.limit = Some(1)
  /\ Len(ReadNow(last.userId, last.id, None)) >= 2
  /\ ReadNow(last.userId, last.id, None)[1] # ReadNow(last.userId, last.id, None)[2]
  /\ last.ret = <<ReadNow(last.userId, last.id, None)[Len(ReadNow(last.userId, last.id, None))]>>

\* C8: after clear(conversationId) a read by the same caller, and by any
\* caller when the conversation has a metadata record, returns the empty
\* sequence; the metadata records, the working memory and every other log
\* are as before, and no log file has appeared or disappeared.
ClearEmptiesOnlyThatLog ==
  [][\A c \in ConvIds, caller \in UserIds :
       (/\ nOps' = nOps + 1
        /\ last'.op = "clearMessages"
        /\ last'.conversationId = Some(c)
        /\ last'.userId = caller)
       => /\ ReadNow(caller, c, None)' = <<>>
          /\ Owners(c) # {} => \A u \in UserIds : ReadNow(u, c, None)' = <<>>
          /\ UNCHANGED <<convFiles, wmFiles, workflowFiles>>
          /\ DOMAIN msgFiles' = DOMAIN msgFiles
          /\ \A p \in DOMAIN msgFiles : p[2] # c => msgFiles'[p] = msgFiles[p]]_vars

\* A clear that emptied the log of a conversation that has a metadata record.
ClearEmptiesWitness ==
  /\ last.op = "clearMessages"
  /\ IsSome(last.conversationId)
  /\ Owners(Val(last.conversationId)) # {}
  /\ \E r \in Owners(Val(last.conversationId)) :
       /\ Has(msgFiles, getMessagesPath(r, Val(last.conversationId)))
       /\ msgFiles[getMessagesPath(r, Val(last.conversationId))] = <<>>

\* C11: across every step each log file is unchanged, or its previous lines
\* followed by the lines an append call wrote at the end, or made empty by a
\* clear call, or removed by a delete call; no step changes, reorders or
\* removes a line that was in the log.
IsPrefixOf(old, new) ==
  Len(old) <= Len(new) /\ SubSeq(new, 1, Len(old)) = old

LogsAreAppendOnly ==
  [][\A p \in DOMAIN msgFiles :
       \/ /\ p \notin DOMAIN msgFiles'
          /\ last'.op = "deleteConversation"
          /\ last'.id = p[2]
       \/ /\ p \in DOMAIN msgFiles'
          /\ msgFiles'[p] = msgFiles[p]
       \/ /\ p \in DOMAIN msgFiles'
          /\ msgFiles'[p] # msgFiles[p]
          /\ IsPrefixOf(msgFiles[p], msgFiles'[p])
          /\ last'.op \in {"addMessage", "addMessages"}
          /\ last'.id = p[2]
          /\ msgFiles'[p] =
               msgFiles[p] \o [i \in 1..Len(last'.messages) |->
                                 JsonStringifyMessage(last'.messages[i])]
       \/ /\ p \in DOMAIN msgFiles'
          /\ msgFiles[p] # <<>>
          /\ msgFiles'[p] = <<>>
          /\ last'.op = "clearMessages"]_vars

\* A batch appended to a log that held a message already.
LogsAreAppendOnlyWitness ==
  /\ last.op = "addMessages"
  /\ Len(last.messages) = 2
  /\ \E p \in DOMAIN msgFiles :
       /\ p[2] = last.id
       /\ Len(msgFiles[p]) = 3
       /\ msgFiles[p][1] = JsonStringifyMessage(MsgHi)
       /\ msgFiles[p][2] = JsonStringifyMessage(MsgHello)

\* C13: after an append for a conversation id, get of that id returns a
\* record: the first message creates the conversation when none exists.
FirstMessageCreatesConversation ==
  last.op = "addMessage" => IsSome(GetNow(last.id))

\* C12: once the touch that follows an append has returned and no call is in
\* progress, the title, metadata, userId, resourceId and createdAt of the
\* conversation, in its file and in what get returns, are those of the latest
\* create or update call that has returned, also when an update of the
\* conversation was in progress during the touch.
StoredRecord(id) ==
  LET paths == {p \in DOMAIN convFiles : p[2] = id}
  IN IF paths = {} THEN None
     ELSE Some(JsonParseConversation(convFiles[CHOOSE p \in paths : TRUE]))

SameButUpdatedAt(x, y) ==
  /\ x.title = y.title
  /\ x.metadata = y.metadata
  /\ x.userId = y.userId
  /\ x.resourceId = y.resourceId
  /\ x.createdAt = y.createdAt

TouchChangesOnlyUpdatedAt ==
  (last.op = "returned" /\ last.call = "addMessage" /\ DOMAIN Calls = {}
     /\ Cardinality(Owners(last.id)) = 1) =>
    LET settled == inFlight.settled[last.id]
    IN /\ IsSome(StoredRecord(last.id))
       /\ SameButUpdatedAt(Val(StoredRecord(last.id)),
                           JsonParseConversation(JsonStringifyConversation(settled)))
       /\ IsSome(GetNow(last.id))
       /\ SameButUpdatedAt(Val(GetNow(last.id)), settled)

\* C14: when the log path derived from the resource id an adapter has cached
\* for a conversation does not exist, and one resource owns the conversation,
\* a read returns the messages of the owner's log and an append puts its
\* message at the end of the owner's log and creates no other log.
ReadAndAppendReachTheOwner ==
  \A o \in Resources :
    (/\ last.op \in {"getMessages", "addMessage"}
     /\ IsSome(last.before.cached)
     /\ ~last.before.cachedLogExists
     /\ last.before.owners = {o})
    => LET ownerLog == getMessagesPath(o, last.id)
       IN IF last.op = "getMessages"
          THEN last.ret = (IF Has(msgFiles, ownerLog)
                           THEN parseLines(msgFiles[ownerLog]) ELSE <<>>)
          ELSE /\ Has(msgFiles, ownerLog)
               /\ msgFiles[ownerLog] =
                    (IF Has(last.logsBefore, ownerLog) THEN last.logsBefore[ownerLog]
                     ELSE <<>>) \o <<JsonStringifyMessage(last.messages[1])>>
               /\ DOMAIN msgFiles \subseteq (DOMAIN last.logsBefore) \cup {ownerLog}

\* C15: a read of a log that holds malformed lines at any positions returns
\* the messages of its well-formed lines, in file order, and with limit K the
\* last min(K, N) of those N messages.
WellFormedLines ==
  {JsonStringifyMessage(MsgHi),
   JsonStringifyMessage(MsgHello),
   <<" ", "{", "assistant", "hello", "}", " ">>}

MessageOfLine(line) ==
  IF line = JsonStringifyMessage(MsgHi) THEN MsgHi ELSE MsgHello

WellFormedMessages(lines) ==
  LET good == SelectSeq(lines, LAMBDA line : line \in WellFormedLines)
  IN [i \in 1..Len(good) |-> MessageOfLine(good[i])]

ReadSkipsMalformedLines ==
  last.op = "getMessages" =>
    LET expected == IF Has(msgFiles, last.path)
                    THEN WellFormedMessages(msgFiles[last.path]) ELSE <<>>
    IN IF IsSome(last.limit)
       THEN IsTailOf(last.ret, expected, Val(last.limit))
       ELSE last.ret = expected

\* A read with limit 1 of a log with a malformed line between two well-formed
\* lines and a blank line after them.
ReadSkipsMalformedWitness ==
  /\ last.op = "getMessages"
  /\ last.limit = Some(1)
  /\ Has(msgFiles, last.path)
  /\ Len(msgFiles[last.path]) = 3
  /\ msgFiles[last.path][1] = JsonStringifyMessage(MsgHi)
  /\ msgFiles[last.path][2] = <<"{", "user">>
  /\ msgFiles[last.path][3] = <<" ", "{", "assistant", "hello", "}", " ">>
  /\ last.ret = <<MsgHello>>

\* C16: conversation-scope and user-scope working memory never share a key
\* namespace: a set or delete in one scope under key k never changes what get
\* returns for key k in the other scope, whatever resource the calls resolve to.
KeyOf(a) == IF a.scope = "conversation" THEN Val(a.conversationId) ELSE Val(a.userId)

WmGet(a) == getWorkingMemory(Store(StoreAdapter), a.conversationId, a.userId, a.scope).ret

ScopesNeverShareKeys ==
  [][(nOps' # nOps /\ last'.op \in {"setWorkingMemory", "deleteWorkingMemory"})
       => \A b \in WmKeyArgs :
            (b.scope # last'.args.scope /\ KeyOf(b) = KeyOf(last'.args))
              => WmGet(b)' = WmGet(b)]_vars

ScopesNeverShareKeysWitness ==
  /\ last.op \in {"setWorkingMemory", "deleteWorkingMemory"}
  /\ last.args.scope = "user"
  /\ \E b \in WmKeyArgs :
       /\ b.scope = "conversation"
       /\ KeyOf(b) = KeyOf(last.args)
       /\ resolveResourceId(Store(StoreAdapter), b.conversationId, b.userId).ret
            = resolveResourceId(Store(StoreAdapter), last.args.conversationId,
                                last.args.userId).ret
       /\ Has(wmFiles, getConversationWorkingMemoryPath(
                         resolveResourceId(Store(StoreAdapter), b.conversationId,
                                           b.userId).ret, KeyOf(b)))
       /\ WmGet(b) = Some("note")
       /\ WmGet(last.args) # Some("note")

\* C17: get for conversation scope returns the scoped record whenever one
\* exists, the legacy flat-file record only when no scoped record exists, and
\* not-found only when neither exists; get for user scope answers from the
\* user-scope file alone; no call writes or removes a file at a legacy path.
LegacyValue(legacyData) ==
  IF "memory" \in DOMAIN legacyData THEN legacyData.memory ELSE legacyData.content

ResourceOf(a) == resolveResourceId(Store(StoreAdapter), a.conversationId, a.userId).ret

LegacyFiles == [p \in {q \in DOMAIN wmFiles : q[3] = "."} |-> wmFiles[p]]

ExpectedWorkingMemory(a) ==
  LET scoped == <<ResourceOf(a), "working", a.scope,
                  IF a.scope = "conversation" THEN KeyOf(a) ELSE sanitizeId(KeyOf(a))>>
      legacy == <<ResourceOf(a), "working", ".", KeyOf(a)>>
  IN IF scoped \in DOMAIN wmFiles THEN Some(wmFiles[scoped].content)
     ELSE IF a.scope = "conversation" /\ legacy \in DOMAIN wmFiles
     THEN Some(LegacyValue(wmFiles[legacy]))
     ELSE None

LegacyFallbackOnlyForConversationGet ==
  [][/\ LegacyFiles' = LegacyFiles
     /\ (nOps' # nOps /\ last'.op = "getWorkingMemory")
          => \A a \in WmKeyArgs :
               a = last'.args => last'.ret = ExpectedWorkingMemory(a)']_vars

LegacyFallbackWitness ==
  /\ last.op = "getWorkingMemory"
  /\ last.args.scope = "conversation"
  /\ <<ResourceOf(last.args), "working", ".", KeyOf(last.args)>> \in DOMAIN wmFiles
  /\ <<ResourceOf(last.args), "working", "conversation", KeyOf(last.args)>> \in DOMAIN wmFiles
  /\ last.ret = Some("note")

\* C18: update(executionId, partial) on a suspended entry keeps every field of
\* the stored suspension that the partial's suspension does not mention, takes
\* the fields it does mention from the partial, and keeps the whole suspension
\* when the partial has no suspension key.
GetWorkflowNow(id) == getWorkflowState(Store(StoreAdapter), id)

SuspendedWithSuspension(id) ==
  /\ IsSome(GetWorkflowNow(id))
  /\ Val(GetWorkflowNow(id)).status = "suspended"
  /\ IsSome(Val(GetWorkflowNow(id)).suspension)

UpdateMergesSuspension ==
  [][(nOps' # nOps /\ last'.op = "updateWorkflowState")
       => \A id \in ExecIds :
            (id = last'.id /\ SuspendedWithSuspension(id))
              => LET before == Val(Val(GetWorkflowNow(id)).suspension)
                     updates == last'.updates
                 IN IF "suspension" \notin DOMAIN updates
                    THEN /\ ~last'.threw
                         /\ IsSome(GetWorkflowNow(id)')
                         /\ Val(GetWorkflowNow(id)').suspension = Some(before)
                    ELSE IsSome(updates.suspension)
                           => /\ ~last'.threw
                              /\ IsSome(GetWorkflowNow(id)')
                              /\ IsSome(Val(GetWorkflowNow(id)').suspension)
                              /\ LET after == Val(Val(GetWorkflowNow(id)').suspension)
                                     partial == Val(updates.suspension)
                                 IN /\ DOMAIN after = (DOMAIN before) \cup (DOMAIN partial)
                                    /\ \A f \in DOMAIN after :
                                         after[f] = IF f \in DOMAIN partial
                                                    THEN partial[f] ELSE before[f]]_vars

UpdateMergesSuspensionWitness ==
  /\ last.op = "updateWorkflowState"
  /\ ~last.threw
  /\ "suspension" \in DOMAIN last.updates
  /\ last.updates.suspension = Some([checkpoint |-> "cp2"])
  /\ IsSome(GetWorkflowNow(last.id))
  /\ IsSome(Val(GetWorkflowNow(last.id)).suspension)
  /\ Val(Val(GetWorkflowNow(last.id)).suspension).checkpoint = "cp2"
  /\ Val(Val(GetWorkflowNow(last.id)).suspension).reason = "r1"

\* C19: getSuspended(workflowId) never fails and returns, once each, exactly
\* the stored entries that can be read, have status suspended and have the
\* workflowId asked for, whatever other files the directory holds; an entry
\* is therefore in every result from the step that stores it as suspended
\* until a set or update stores another status, and in none from then on.
StoredSuspended(workflowId) ==
  {i \in DOMAIN workflowFiles :
     /\ IsSome(getWorkflowState(Store(StoreAdapter), i))
     /\ Val(getWorkflowState(Store(StoreAdapter), i)).status = "suspended"
     /\ Val(getWorkflowState(Store(StoreAdapter), i)).workflowId = workflowId}

\* The result lists the entries of the files `ids', one element per file.
ListsEntriesOf(ret, ids) ==
  \E f \in [DOMAIN ret -> ids] :
    /\ \A id \in ids : \E i \in DOMAIN ret : f[i] = id
    /\ \A i, j \in DOMAIN ret : f[i] = f[j] => i = j
    /\ \A i \in DOMAIN ret : ret[i] = Val(getWorkflowState(Store(StoreAdapter), f[i]))

SuspendedScanIsExact ==
  [][(nOps' # nOps /\ last'.op = "getSuspendedWorkflowStates")
       => /\ ~last'.threw
          /\ \A w \in WorkflowIds :
               w = last'.workflowId => ListsEntriesOf(last'.ret, StoredSuspended(w))]_vars

SuspendedScanWitness ==
  /\ last.op = "getSuspendedWorkflowStates"
  /\ DamagedExecId \in DOMAIN workflowFiles
  /\ Len(last.ret) = 1
  /\ \E id \in ExecIds :
       /\ IsSome(getWorkflowState(Store(StoreAdapter), id))
       /\ Val(getWorkflowState(Store(StoreAdapter), id)) # last.ret[1]

\* C20: a workflow-state entry's identity and creation time never change:
\* after every set or update the entry stored under a key has that key as its
\* executionId, and an entry that was already stored keeps its createdAt.
WorkflowIdentityNeverChanges ==
  [][\A id \in ExecIds :
       IsSome(getWorkflowState(Store(StoreAdapter), id)')
         => /\ Val(getWorkflowState(Store(StoreAdapter), id)').executionId = id
            /\ IsSome(getWorkflowState(Store(StoreAdapter), id))
                 => Val(getWorkflowState(Store(StoreAdapter), id)').createdAt
                      = Val(getWorkflowState(Store(StoreAdapter), id)).createdAt]_vars

\* C21: update(executionId, partial) for an executionId with no stored entry
\* fails and writes nothing: get(executionId) still reports not-found and
\* every file of the directory is as it was.
UpdateOfMissingFails ==
  [][(nOps' # nOps /\ last'.op = "updateWorkflowState")
       => \A id \in ExecIds :
            (id = last'.id /\ ~IsSome(getWorkflowState(Store(StoreAdapter), id)))
              => /\ last'.threw
                 /\ ~IsSome(getWorkflowState(Store(StoreAdapter), id)')
                 /\ workflowFiles' = workflowFiles]_vars

UpdateOfMissingWitness ==
  /\ last.op = "updateWorkflowState"
  /\ last.threw
  /\ ~IsSome(getWorkflowState(Store(StoreAdapter), last.id))
  /\ last.id \notin DOMAIN workflowFiles
  /\ \E other \in ExecIds : IsSome(getWorkflowState(Store(StoreAdapter), other))

\* C22: as long as shutdown has not been called, every build of a slug after
\* the first reuses the cached MCP configuration: for every (slug, toolId) at
\* most one configuration has been constructed and it has connected at most
\* once, however many times initialize and switchAgent built the slug.
BuildsReuseConnections ==
  runtime.shutdowns = 0
    => \A slug \in Slugs, toolId \in ToolIds :
         /\ ConfigsConstructed(RuntimeStore, <<slug, toolId>>) <= 1
         /\ \A config \in DOMAIN connections :
              (config[1] = slug /\ config[2] = toolId)
                => /\ connections[config].connects <= 1
                   /\ Has(mcpConfigs, <<slug, toolId>>)
                   /\ mcpConfigs[<<slug, toolId>>] = config

BuildsReuseConnectionsWitness ==
  /\ runtime.shutdowns = 0
  /\ \E slug \in Slugs :
       /\ Has(runtime.builds, slug)
       /\ runtime.builds[slug] >= 2
       /\ Has(activeAgents, slug)
       /\ activeAgents[slug].build >= 2
       /\ \E i \in DOMAIN activeAgents[slug].tools :
            activeAgents[slug].tools[i].server = "files"
       /\ Has(connections, <<slug, "files", 1>>)
       /\ connections[<<slug, "files", 1>>].connects = 1
       /\ connections[<<slug, "files", 1>>].open

\* C23: a tool-connection cache entry, once created, stays in the cache with
\* the same configuration, and stays connected if it was, through every step
\* that is not a shutdown: builds, switches and changes of agent.json.
DeclaredTools(slug) ==
  IF IsSome(loadAgent(RuntimeStore, slug)) /\ IsSome(Val(loadAgent(RuntimeStore, slug)).tools)
  THEN {Val(Val(loadAgent(RuntimeStore, slug)).tools).use[i] :
          i \in DOMAIN Val(Val(loadAgent(RuntimeStore, slug)).tools).use}
  ELSE {}

SpecOfAgent(agent) ==
  CHOOSE spec \in AgentSpecChoices : spec.prompt = agent.instructions
Resolves(toolId) ==
  /\ toolId \in DOMAIN ToolCatalog
  /\ ToolCatalog[toolId].kind = "mcp"
  /\ ToolCatalog[toolId].transport \in {"stdio", "process", "ws", "tcp"}
  /\ ServerReachable(toolId)
RECURSIVE ResolvedTools(_)
ResolvedTools(use) ==
  IF use = <<>> THEN <<>>
  ELSE (IF Resolves(Head(use)) THEN ServerTools(Head(use)) ELSE <<>>)
         \o ResolvedTools(Tail(use))

OverlappingSwitchesShareOneBuild ==
  \A c1 \in DOMAIN inFlight.settled, c2 \in DOMAIN inFlight.settled :
    LET h1 == inFlight.settled[c1]
        h2 == inFlight.settled[c2]
    IN (/\ c1 # c2
        /\ DOMAIN Calls = {}
        /\ last.op = "switchAgent"
        /\ h1.overlapped /\ h2.overlapped
        /\ h1.agent.name = h2.agent.name
        /\ Has(activeAgents, h1.agent.name))
         => /\ h1.agent = activeAgents[h1.agent.name]
            /\ h2.agent = activeAgents[h1.agent.name]

\* C27: shutdown calls disconnect on every configuration in mcpConfigs, also
\* on those that come after one whose disconnect throws, and leaves mcpConfigs
\* and activeAgents empty.
ShutdownReleasesEverything ==
  [][runtime'.shutdowns = runtime.shutdowns + 1
       => /\ \A mcpKey \in DOMAIN mcpConfigs :
               connections'[mcpConfigs[mcpKey]].disconnects
                 = connections[mcpConfigs[mcpKey]].disconnects + 1
          /\ mcpConfigs' = EmptyMap
          /\ activeAgents' = EmptyMap]_vars

\* A shutdown has returned after the disconnect of one server threw and the
\* disconnects of two other configurations went through.
ShutdownReleasesEverythingWitness ==
  /\ last.op = "shutdown"
  /\ mcpConfigs = EmptyMap
  /\ activeAgents = EmptyMap
  /\ \E failed \in DOMAIN connections :
       /\ DisconnectFails(failed[2])
       /\ connections[failed].disconnects = 1
       /\ connections[failed].open
  /\ Cardinality({config \in DOMAIN connections :
                    /\ ~DisconnectFails(config[2])
                    /\ connections[config].disconnects = 1
                    /\ ~connections[config].open}) >= 2

\* C28: over every step that removes an agent from activeAgents, each
\* configuration cached for that agent is disconnected and leaves mcpConfigs,
\* and the configurations cached for the agents that stay are left as they were.
RemovalReleasesConnections ==
  [][\A slug \in DOMAIN activeAgents \ DOMAIN activeAgents' :
       /\ \A mcpKey \in DOMAIN mcpConfigs :
            mcpKey[1] = slug
              => /\ mcpKey \notin DOMAIN mcpConfigs'
                 /\ connections'[mcpConfigs[mcpKey]].disconnects
                      > connections[mcpConfigs[mcpKey]].disconnects
       /\ \A mcpKey \in DOMAIN mcpConfigs :
            mcpKey[1] \in DOMAIN activeAgents'
              => /\ mcpKey \in DOMAIN mcpConfigs'
                 /\ mcpConfigs'[mcpKey] = mcpConfigs[mcpKey]
                 /\ connections'[mcpConfigs[mcpKey]] = connections[mcpConfigs[mcpKey]]]_vars

\* The state is the one in which a run of initialize has completed, and the
\* agent's build succeeds on the files as they are.
InitializeCompleted ==
  \/ last.op = "initialize"
  \/ last.op = "updateAgent" /\ last.status = 200
  \/ last.op = "deleteAgent" /\ last.status = 204
BuildSucceeds(slug) ==
  /\ IsSome(loadAgent(RuntimeStore, slug))
  /\ ~createBedrockModelThrows(agentFiles[slug])

AllowedBy(spec, tool) ==
  \/ ~IsSome(Val(spec.tools).allowed)
  \/ "*" \in Val(Val(spec.tools).allowed)
  \/ tool.name \in Val(Val(spec.tools).allowed)
FailedDeclarations(spec) ==
  {Val(spec.tools).use[i] : i \in DOMAIN Val(spec.tools).use}
    \ ({toolId \in ToolIds : Resolves(toolId)}
         \cup {toolId \in DOMAIN ToolCatalog : ToolCatalog[toolId].kind = "builtin"})

\* C30: an agent with a declared tool that failed to resolve (no tool.json, a
\* server that cannot be reached, a transport that is not supported) is built
\* all the same, with exactly the tools of its declared tools that did
\* resolve, as far as the allow-list lets them through, and with no tool of a
\* failed declaration.
ToolFailuresAreIsolated ==
  \A slug \in DOMAIN activeAgents :
    LET agent == activeAgents[slug]
        spec == SpecOfAgent(agent)
    IN (IsSome(spec.tools) /\ FailedDeclarations(spec) # {})
         => /\ agent.tools = SelectSeq(ResolvedTools(Val(spec.tools).use),
                                       LAMBDA t : AllowedBy(spec, t))
            /\ \A i \in DOMAIN agent.tools :
                 agent.tools[i].server \notin FailedDeclarations(spec)

\* Two agents are built: one whose declarations failed in the three ways
\* before the one that resolved, one with a failed declaration between two
\* that resolved.
ToolFailuresAreIsolatedWitness ==
  \E first \in DOMAIN activeAgents, second \in DOMAIN activeAgents :
    /\ SpecOfAgent(activeAgents[first]) = SpecFailing
    /\ FailedDeclarations(SpecFailing) = {"odd", "ghost"}
    /\ Len(activeAgents[first].tools) = 2
    /\ SpecOfAgent(activeAgents[second]) = SpecListed
    /\ FailedDeclarations(SpecListed) = {"down"}
    /\ \E i \in DOMAIN activeAgents[second].tools :
         activeAgents[second].tools[i].server = "web"

\* C31: a call made for an agent (a user id of the form agent:<slug>:...)
\* reads and appends only under that agent's resource: getMessages returns
\* the messages of the log under that resource and nothing else, and
\* addMessage / addMessages leave the logs under every other resource as they
\* were, whatever the conversation id.
MemoryIsolatedPerAgent ==
  [][\A userId \in UserIds, id \in ConvIds :
       (/\ last'.op \in {"addMessage", "addMessages", "getMessages"}
        /\ last'.userId = userId
        /\ last'.id = id
        /\ IsSome(extractAgentSlug(Some(userId))))
         => LET own == Val(extractAgentSlug(Some(userId)))
                ownLog == IF Has(msgFiles, getMessagesPath(own, id))
                          THEN msgFiles[getMessagesPath(own, id)] ELSE <<>>
            IN /\ last'.op = "getMessages"
                    => last'.ret = applyLimit(parseLines(ownLog), last'.limit)
               /\ last'.op \in {"addMessage", "addMessages"}
                    => \A path \in DOMAIN msgFiles' :
                         path[1] # own
                           => /\ path \in DOMAIN msgFiles
                              /\ msgFiles'[path] = msgFiles[path]]_vars

\* C32: a createAgent that finds its slug taken throws 'already exists' and
\* leaves the stored agent as it was, and of the createAgent calls that
\* generate one slug at most one returns an agent, also when they overlap.
CreateAgentNeverSharesSlug ==
  [][/\ (last'.op = "createAgent" /\ last'.threw = "already exists")
          => /\ Has(agentFiles, last'.slug)
             /\ agentFiles' = agentFiles
     /\ \A c1 \in DOMAIN inFlight'.settled, c2 \in DOMAIN inFlight'.settled :
          c1 # c2 => inFlight'.settled[c1].slug # inFlight'.settled[c2].slug]_vars

\* C33: createWorkflow on a name that is free stores the content and the
\* file is listed, on a name that is taken it throws and overwrites nothing;
\* readWorkflow returns what the file holds, which only a createWorkflow or
\* updateWorkflow that succeeds on it changes; updateWorkflow, readWorkflow
\* and deleteWorkflow on a file that does not exist throw and create nothing;
\* after deleteWorkflow the file is gone and not listed.
WorkflowFilesLifeCycle ==
  [][\A slug \in WorkflowSlugs, filename \in WorkflowFilenames :
       LET path == getWorkflowPath(slug, filename)
           wf == agentWorkflowFiles
           listed == listAgentWorkflows([files |-> agentFiles', wf |-> agentWorkflowFiles'],
                                        slug)
           isListed == \E i \in DOMAIN listed : listed[i] = filename
       IN IF last'.op \in {"createWorkflow", "readWorkflow", "updateWorkflow",
                           "deleteWorkflow"}
             /\ last'.slug = slug /\ last'.workflowId = filename
          THEN /\ last'.op = "createWorkflow"
                    => IF Has(wf, path)
                       THEN last'.threw # "" /\ agentWorkflowFiles' = wf
                       ELSE IF last'.threw = ""
                       THEN /\ agentWorkflowFiles' = Put(wf, path, last'.content)
                            /\ isListed
                       ELSE agentWorkflowFiles' = wf
               /\ last'.op = "readWorkflow"
                    => /\ agentWorkflowFiles' = wf
                       /\ IF Has(wf, path)
                          THEN last'.threw = "" /\ last'.ret = Some(wf[path])
                          ELSE last'.threw # "" /\ last'.ret = None
               /\ last'.op = "updateWorkflow"
                    => IF Has(wf, path)
                       THEN /\ last'.threw = ""
                            /\ agentWorkflowFiles' = Put(wf, path, last'.content)
                       ELSE last'.threw # "" /\ agentWorkflowFiles' = wf
               /\ last'.op = "deleteWorkflow"
                    => IF Has(wf, path)
                       THEN /\ last'.threw = ""
                            /\ agentWorkflowFiles' = Del(wf, path)
                            /\ ~isListed
                       ELSE last'.threw # "" /\ agentWorkflowFiles' = wf
          ELSE (last'.op \notin {"createWorkflow", "readWorkflow", "updateWorkflow",
                                 "deleteWorkflow"})
                 => agentWorkflowFiles' = wf]_vars

\* A createWorkflow has thrown on a name that is taken by a file with
\* another content, which the file still has and readWorkflow would return.
WorkflowFilesLifeCycleWitness ==
  /\ last.op = "createWorkflow"
  /\ last.threw = "already exists"
  /\ Has(agentWorkflowFiles, getWorkflowPath(last.slug, last.workflowId))
  /\ agentWorkflowFiles[getWorkflowPath(last.slug, last.workflowId)] # last.content
  /\ readWorkflow(ConfigStore, last.slug, last.workflowId).ret # Some(last.content)
  /\ \E i \in DOMAIN listAgentWorkflows(ConfigStore, last.slug) :
       listAgentWorkflows(ConfigStore, last.slug)[i] = last.workflowId

\* C34: a conversation that deleteConversation has removed is not brought
\* back by a call that was in progress during the delete: when such a call
\* goes on and the id has no metadata record and no message log under any
\* resource, it has none afterwards.
DeletedStaysDeleted ==
  [][\A id \in ConvIds :
       (/\ last'.op \in {"writeFile", "returned"}
        /\ last'.id = id
        /\ \A r \in Resources : ~Has(convFiles, getConversationPath(r, id))
        /\ \A r \in Resources : ~Has(msgFiles, getMessagesPath(r, id)))
         => /\ \A r \in Resources : ~Has(convFiles', getConversationPath(r, id))
            /\ \A r \in Resources : ~Has(msgFiles', getMessagesPath(r, id))]_vars

\* C35: the adapters of two agents over one directory never disagree about
\* a conversation: when deleteConversation(id) through one adapter has
\* completed, getConversation(id) through every adapter answers null
\* instead of a copy that the adapter has cached.
CachesNeverDisagree ==
  \A id \in SharedConvIds :
    (last.op = "deleteConversation" /\ last.id = id)
      => \A ad \in Adapters : getConversation(Store(ad), id).ret = None

\* C36: every entry of the tool-connection cache belongs to a connection
\* that was established, with its tools discovered: a configuration whose
\* server could not be reached is not left in mcpConfigs.
CacheEntriesAreConnected ==
  \A mcpKey \in DOMAIN mcpConfigs : connections[mcpConfigs[mcpKey]].connects >= 1

\* C37: nothing survives shutdown: when a switchAgent that was awaiting its
\* build while shutdown ran completes right after shutdown has returned,
\* activeAgents and mcpConfigs are still empty and the step has opened no
\* tool connection.
NothingSurvivesShutdown ==
  [][(/\ last.op = "shutdown"
      /\ last'.op = "switchAgent"
      /\ last'.built)
       => /\ activeAgents' = EmptyMap
          /\ mcpConfigs' = EmptyMap
          /\ \A config \in DOMAIN connections' :
               connections'[config].open
                 => config \in DOMAIN connections /\ connections[config].open]_vars

\* C38: working memory round-trips: right after a setWorkingMemory that did
\* not throw, getWorkingMemory with the same arguments returns the content
\* that was set, and a createConversation or deleteConversation in between
\* does not change what getWorkingMemory returns for a key that has content.
WorkingMemoryRoundTrips ==
  [][\A a \in WmArgs :
       LET got == getWorkingMemory(Store(StoreAdapter), a.conversationId, a.userId,
                                   a.scope).ret
       IN /\ (/\ last'.op = "setWorkingMemory"
              /\ last'.args = a
              /\ ~last'.threw) => got' = Some(last'.content)
          /\ (/\ last'.op \in {"createConversation", "deleteConversation"}
              /\ IsSome(got)) => got' = got]_vars

\* C39: two distinct user ids never share a user-scoped working-memory
\* record: a setWorkingMemory or deleteWorkingMemory in user scope for one
\* user id does not change what getWorkingMemory returns for another.
UserRecordsAreNotShared ==
  [][\A a \in SignArgs, b \in SignArgs :
       LET got == getWorkingMemory(Store(StoreAdapter), b.conversationId, b.userId,
                                   b.scope).ret
       IN (/\ last'.op \in {"setWorkingMemory", "deleteWorkingMemory"}
           /\ last'.args = a
           /\ a.userId # b.userId) => got' = got]_vars

\* C40: resource resolution follows a fixed precedence.  The resources a call
\* on conversation id must operate under: those that hold a metadata record
\* of id; when there is none, the slug that the user id encodes; when there
\* is none either, 'default'.
ResourceByPrecedence(id, userIdOpt) ==
  IF Owners(id) # {} THEN Owners(id)
  ELSE IF IsSome(extractAgentSlug(userIdOpt)) THEN {Val(extractAgentSlug(userIdOpt))}
  ELSE {DefaultResource}

\* An append, a clear and a working-memory write on id change no file but
\* those under that resource, and a read returns the log under it.
ResolutionFollowsPrecedence ==
  [][\A id \in ConvIds, R \in Resources :
       /\ (/\ last'.op \in {"addMessage", "addMessages"}
           /\ last'.id = id
           /\ R \in ResourceByPrecedence(id, Some(last'.userId)))
            => \A p \in DOMAIN msgFiles \cup DOMAIN msgFiles' :
                 p # getMessagesPath(R, id)
                   => Has(msgFiles, p) /\ Has(msgFiles', p) /\ msgFiles'[p] = msgFiles[p]
       /\ (/\ last'.op = "clearMessages"
           /\ last'.conversationId = Some(id)
           /\ R \in ResourceByPrecedence(id, Some(last'.userId)))
            => \A p \in DOMAIN msgFiles \cup DOMAIN msgFiles' :
                 p # getMessagesPath(R, id)
                   => Has(msgFiles, p) /\ Has(msgFiles', p) /\ msgFiles'[p] = msgFiles[p]
       /\ (/\ last'.op = "getMessages"
           /\ last'.id = id
           /\ R \in ResourceByPrecedence(id, Some(last'.userId)))
            => last'.ret =
                 applyLimit(parseLines(IF Has(msgFiles, getMessagesPath(R, id))
                                       THEN msgFiles[getMessagesPath(R, id)]
                                       ELSE <<>>),
                            last'.limit)
       /\ (/\ last'.op \in {"setWorkingMemory", "deleteWorkingMemory"}
           /\ last'.args.conversationId = Some(id)
           /\ R \in ResourceByPrecedence(id, last'.args.userId))
            => \A p \in DOMAIN wmFiles \cup DOMAIN wmFiles' :
                 p[1] # R
                   => Has(wmFiles, p) /\ Has(wmFiles', p) /\ wmFiles'[p] = wmFiles[p]]_vars

====
